---- MODULE Spec2Model ----
(***************************************************************************)
(* Conduit: the permission engine (src/src/core/permission-engine.ts) and  *)
(* the session manager (src/src/core/session-manager.ts) with the bridge   *)
(* server it drives (src/unnamed/part_008), as state machines.             *)
(*                                                                         *)
(* Strings the glob matcher reads are sequences of one-character strings;  *)
(* identifiers that are only compared for equality are TLA+ strings.       *)
(***************************************************************************)
EXTENDS Integers, Sequences, FiniteSets, TLC

(* ------------------------------ bounds --------------------------------- *)

\* rules ever created (ids are never reused), and audit rows written, when
\* the rule order is checked
MaxRules == 2

MaxLogEval == 1

\* the same when the audit log is checked
MaxRulesAudit == 1

MaxLog == 2

(* ------------------------- permission store ---------------------------- *)

VARIABLES
    permission_rules,   \* table permission_rules: rule id -> row
    permission_log,     \* table permission_log, in insertion order
    nextRuleId,         \* generateId() for rules: the ids 1, 2, ... are fresh
    lastCall            \* the last engine call and what it gave its caller

permVars == <<permission_rules, permission_log, nextRuleId, lastCall>>

(* --------------------------- session manager --------------------------- *)

VARIABLES
    sessions,        \* table sessions: session id -> row
    messages,        \* table messages: per session, the entries of each kind
    activeSessions,  \* the Map activeSessions: session id -> ActiveSession
    usedPorts,       \* the Set usedPorts
    nextId,          \* generateId() for sessions: the ids 1, 2, ... are fresh
    create,          \* where each create() call stands
    bridge,          \* per session: the bridge server and its attached client
    cli,             \* per session: the agent subprocess
    createError,     \* what the create() call that just failed threw
    received,        \* per session: the result frames handled so far
    called,          \* the handler that ran last: what it gave its caller,
                     \* the bus events it emitted, the frames it sent the agent
    now              \* new Date(): the clock

VARIABLE projects    \* table projects: the ids of its rows

\* the event bus: the Map subscriptions in insertion order, subCounter, and
\* what the handlers and the callers of emit have seen
VARIABLE bus

\* per session, the frames its agent has sent, in arrival order, each with
\* the numbers of the emissions the router made for it
VARIABLE arrived

\* one bridge server's client sockets in the order of their connection,
\* and its clientWs (0 is null)
VARIABLE sockets

\* an NdjsonParser: its buffer and the values its callback was called
\* with, the text still to be fed to it and the text fed so far
VARIABLE ndjson

\* the connect wait of each session's create() call: its promise, its 15 s
\* timer, its exit listener and the bridge's connectCallback
VARIABLE wait

\* the rows of table messages of each session, in the order of their
\* insertion (rowid)
VARIABLE transcript

sessVars ==
    <<sessions, messages, activeSessions, usedPorts, nextId, create, bridge, cli,
      createError, received, called, now, projects, bus, arrived, sockets, ndjson, wait, transcript>>

vars == <<permVars, sessVars>>

\* SQL NULL in a project_id column
NULL == "NULL"

\* SQL NULL in a rule_id column (rule ids are 1, 2, ...)
NoRule == 0

\* the project the sessions below belong to (a row of table projects)
Projects == {"P"}

\* rows of table sessions the permission log may reference
LoggedSessions == {"S", "T"}

\* session ids a caller may pass to evaluate
SessionArgs == {"S", "T", "gone"}

\* the project of every session above (sessions.project_id)
projectOf(sessionId) == "P"

(* ------------------------------ strings -------------------------------- *)

s_empty == << >>
s_git_star == <<"g", "i", "t", ":", "*">>
s_command == <<"c", "o", "m", "m", "a", "n", "d">>
s_file_path == <<"f", "i", "l", "e", "_", "p", "a", "t", "h">>

\* the index of the first occurrence of c in s at or after i, 0 when none
RECURSIVE IndexFrom(_, _, _)
IndexFrom(s, c, i) ==
    IF i > Len(s) THEN 0
    ELSE IF s[i] = c THEN i
    ELSE IndexFrom(s, c, i + 1)

startsWith(value, prefix) ==
    /\ Len(prefix) <= Len(value)
    /\ SubSeq(value, 1, Len(prefix)) = prefix

\* new RegExp("^" + escaped.replace(/\*/g, ".*") + "$").test(value): '*' is
\* ".*", any run of characters other than line terminators; '?' is not among
\* the characters the replace escapes, so it is the quantifier of the
\* regular expression (zero or one of what precedes it, or, after a
\* quantifier, the lazy form of that quantifier); every other character
\* stands for itself.
LineTerminators == {"\n", "\r"}

\* the number of '?' in a row from position i of the pattern
RECURSIVE marks(_, _)
marks(pattern, i) ==
    IF i <= Len(pattern) /\ pattern[i] = "?" THEN 1 + marks(pattern, i + 1) ELSE 0

\* new RegExp throws SyntaxError (nothing to repeat): a '?' that follows
\* "^", or follows a quantifier that is already lazy
regexSyntaxError(pattern) ==
    \/ marks(pattern, 1) > 0
    \/ \E i \in 1..Len(pattern) :
           /\ pattern[i] # "?"
           /\ marks(pattern, i + 1) > (IF pattern[i] = "*" THEN 1 ELSE 2)

RECURSIVE regexTest(_, _, _, _)
regexTest(pattern, i, value, j) ==
    IF i > Len(pattern) THEN j > Len(value)
    ELSE LET optional == marks(pattern, i + 1) > 0
             next == i + 1 + marks(pattern, i + 1)
         IN  IF pattern[i] = "*"
             THEN \/ regexTest(pattern, next, value, j)
                  \/ /\ j <= Len(value)
                     /\ value[j] \notin LineTerminators
                     /\ regexTest(pattern, i, value, j + 1)
             ELSE \/ optional /\ regexTest(pattern, next, value, j)
                  \/ /\ j <= Len(value)
                     /\ value[j] = pattern[i]
                     /\ regexTest(pattern, next, value, j + 1)

\* pattern.split(":", 2): the piece before the first ':' and the piece
\* between the first and the second ':' (or the end of the pattern)
splitPrefix(pattern) ==
    SubSeq(pattern, 1, IndexFrom(pattern, ":", 1) - 1)

splitSuffix(pattern) ==
    LET c1 == IndexFrom(pattern, ":", 1)
        c2 == IndexFrom(pattern, ":", c1 + 1)
    IN  SubSeq(pattern, c1 + 1, IF c2 = 0 THEN Len(pattern) ELSE c2 - 1)

\* the result of matchGlob when new RegExp does not throw
matchGlob(pattern, value) ==
    IF IndexFrom(pattern, ":", 1) # 0 /\ splitSuffix(pattern) = <<"*">>
    THEN startsWith(value, splitPrefix(pattern))
    ELSE regexTest(pattern, 1, value, 1)

\* JSON.stringify of a tool input whose values are strings
quote(s) == <<"\"">> \o s \o <<"\"">>

keyName(k) == IF k = "command" THEN s_command ELSE s_file_path

member(toolInput, k) == quote(keyName(k)) \o <<":">> \o quote(toolInput[k])

stringify(toolInput) ==
    LET has(k) == k \in DOMAIN toolInput
    IN  <<"{">>
        \o (IF has("command") THEN member(toolInput, "command") ELSE << >>)
        \o (IF has("command") /\ has("file_path") THEN <<",">> ELSE << >>)
        \o (IF has("file_path") THEN member(toolInput, "file_path") ELSE << >>)
        \o <<"}">>

\* toolInput.command / toolInput.file_path as a condition: present and not ""
truthy(toolInput, k) == k \in DOMAIN toolInput /\ toolInput[k] # << >>

matchesRule(rule, toolName, toolInput) ==
    IF rule.tool_name # "*" /\ rule.tool_name # toolName THEN FALSE
    ELSE IF rule.rule_content = << >> THEN TRUE
    ELSE IF toolName = "Bash" /\ truthy(toolInput, "command")
    THEN matchGlob(rule.rule_content, toolInput.command)
    ELSE IF toolName \in {"Write", "Edit", "Read"} /\ truthy(toolInput, "file_path")
    THEN matchGlob(rule.rule_content, toolInput.file_path)
    ELSE matchGlob(rule.rule_content, stringify(toolInput))

(* --------------------------- rule evaluation --------------------------- *)

\* the ids of the rules SELECT ... WHERE project_id = / IS NULL AND behavior =
rulesOf(rules, projectId, behavior) ==
    {id \in DOMAIN rules :
        /\ rules[id].project_id = projectId
        /\ rules[id].behavior = behavior}

\* findMatchingRule walks the rows ORDER BY priority DESC and returns the
\* first that matches; SQL leaves the order of rows of equal priority open,
\* so the result is any matching row no matching row outranks.  {} is null.
findMatchingRule(rules, projectId, toolName, toolInput, behavior) ==
    LET matching == {id \in rulesOf(rules, projectId, behavior) :
                        matchesRule(rules[id], toolName, toolInput)}
    IN  {id \in matching :
            \A other \in matching : rules[other].priority <= rules[id].priority}

decision(behavior, source, ruleId) ==
    [behavior |-> behavior, source |-> source, rule_id |-> ruleId]

\* the (decision, source, rule id) triples evaluate may log and return
evaluate_allowFirst(rules, projectId, toolName, toolInput) ==
    LET projectDeny == findMatchingRule(rules, projectId, toolName, toolInput, "deny")
        globalDeny == findMatchingRule(rules, NULL, toolName, toolInput, "deny")
        projectAllow == findMatchingRule(rules, projectId, toolName, toolInput, "allow")
        globalAllow == findMatchingRule(rules, NULL, toolName, toolInput, "allow")
    IN  IF projectAllow # {}
        THEN {decision("allow", "auto_rule", id) : id \in projectAllow}
        ELSE IF globalAllow # {}
        THEN {decision("allow", "auto_rule", id) : id \in globalAllow}
        ELSE IF projectDeny # {}
        THEN {decision("deny", "auto_rule", id) : id \in projectDeny}
        ELSE IF globalDeny # {}
        THEN {decision("deny", "auto_rule", id) : id \in globalDeny}
        ELSE {decision("allow", "auto_default", NoRule)}

evaluate_defaultDeny(rules, projectId, toolName, toolInput) ==
    LET projectDeny == findMatchingRule(rules, projectId, toolName, toolInput, "deny")
        globalDeny == findMatchingRule(rules, NULL, toolName, toolInput, "deny")
        projectAllow == findMatchingRule(rules, projectId, toolName, toolInput, "allow")
        globalAllow == findMatchingRule(rules, NULL, toolName, toolInput, "allow")
    IN  IF projectDeny # {}
        THEN {decision("deny", "auto_rule", id) : id \in projectDeny}
        ELSE IF globalDeny # {}
        THEN {decision("deny", "auto_rule", id) : id \in globalDeny}
        ELSE IF projectAllow # {}
        THEN {decision("allow", "auto_rule", id) : id \in projectAllow}
        ELSE IF globalAllow # {}
        THEN {decision("allow", "auto_rule", id) : id \in globalAllow}
        ELSE {decision("deny", "auto_default", NoRule)}

evaluate(rules, projectId, toolName, toolInput) ==
    LET projectDeny == findMatchingRule(rules, projectId, toolName, toolInput, "deny")
        globalDeny == findMatchingRule(rules, NULL, toolName, toolInput, "deny")
        projectAllow == findMatchingRule(rules, projectId, toolName, toolInput, "allow")
        globalAllow == findMatchingRule(rules, NULL, toolName, toolInput, "allow")
    IN  IF projectDeny # {}
        THEN {decision("deny", "auto_rule", id) : id \in projectDeny}
        ELSE IF globalDeny # {}
        THEN {decision("deny", "auto_rule", id) : id \in globalDeny}
        ELSE IF projectAllow # {}
        THEN {decision("allow", "auto_rule", id) : id \in projectAllow}
        ELSE IF globalAllow # {}
        THEN {decision("allow", "auto_rule", id) : id \in globalAllow}
        ELSE {decision("allow", "auto_default", NoRule)}

\* the row logDecision inserts
logRow(sessionId, requestId, toolName, toolInput, d) ==
    [session_id |-> sessionId,
     request_id |-> requestId,
     tool_name |-> toolName,
     tool_input |-> stringify(toolInput),
     decision |-> d.behavior,
     decision_source |-> d.source,
     rule_id |-> d.rule_id,
     decided_by |-> IF d.source \in {"auto_rule", "auto_default"}
                    THEN "system" ELSE d.source]

logDecision_overwrite(log, row) ==
    IF log = << >> THEN <<row>> ELSE <<row>> \o Tail(log)

logDecision(log, row) == Append(log, row)

ALLOWED_COLUMNS == {"tool_name", "rule_content", "behavior", "priority"}

\* the row createRule inserts (created_at is not modelled)
newRule(id, projectId, input) ==
    [id |-> id, project_id |-> projectId, tool_name |-> input.tool_name,
     rule_content |-> input.rule_content, behavior |-> input.behavior,
     priority |-> input.priority]

(* ------------------------------ inputs --------------------------------- *)

s_git_c == <<"g", "i", "t", " ", "c">>
s_digit == <<"d", "i", "g", "i", "t">>

\* the tool-use requests of the agent
Requests ==
    {[tool_name |-> "Bash", tool_input |-> [command |-> s_git_c]],
     [tool_name |-> "Bash", tool_input |-> [command |-> s_digit]],
     [tool_name |-> "Read", tool_input |-> [file_path |-> s_git_c]]}

RuleToolNames == {"*", "Bash"}

RuleContents == {s_empty, s_git_star}

Priorities == {0, 1}

\* CreatePermissionRuleInput
RuleInputs ==
    [tool_name : RuleToolNames, rule_content : RuleContents,
     behavior : {"allow", "deny"}, priority : Priorities]

\* the rules created while the audit log is watched
AuditRuleInputs == {input \in RuleInputs : input.priority = 0 /\ input.tool_name = "Bash"}

\* the keys an updateRule payload may carry; "id" and "project_id" are
\* not mutable columns
UpdateKeys == {"tool_name", "rule_content", "behavior", "priority", "id", "project_id"}

UpdateKeySets ==
    {{"rule_content"}, {"behavior"}, {"id", "priority"}, {"id", "project_id"},
     ALLOWED_COLUMNS}

\* Partial<CreatePermissionRuleInput>: the keys K present, with their values
UpdateInputs ==
    {[K |-> K, tool_name |-> "Bash", rule_content |-> s_git_star,
      behavior |-> "deny", priority |-> 1] : K \in UpdateKeySets}

\* (sessionId, requestId) of the evaluate calls while the log is watched
AuditCalls == {<<"S", "req-1">>, <<"T", "req-2">>, <<"gone", "req-3">>}

\* the rule tables with at most maxRules rows: the store is persistent, so
\* the engine may start on any of them
RuleTables(maxRules) ==
    UNION {{[id \in 1..n |-> newRule(id, f[id][1], f[id][2])] :
               f \in [1..n -> (Projects \cup {NULL}) \X RuleInputs]} :
           n \in 0..maxRules}

(* ----------------------------- configuration --------------------------- *)

\* config.wsPortRangeStart, config.wsPortRangeEnd, config.maxSessionsGlobal,
\* as the environment of the runs below sets them
wsPortRangeStart == 9000

wsPortRangeEnd == 9002

maxSessionsGlobal == 2

Ports == wsPortRangeStart..wsPortRangeEnd

\* session ids generateId() ever hands out
NumSessions == 2
NumPortSessions == 3
MaxTurns == 1
NumResultSessions == 1
MaxResults == 2
NumCallSessions == 1
MaxCalls == 1
MaxStore == 2
MaxNow == 3

\* SQL NULL in the integer columns ws_port and cli_pid
NullInt == 0

\* nothing has been created yet: no session row, no bridge, no subprocess
\* let subCounter = 0; const subscriptions = new Map()
noBus ==
    [subscriptions |-> << >>, subCounter |-> 0, handlers |-> << >>,
     emitted |-> << >>, outcome |-> "return"]

\* let clientWs = null, and no socket yet
noSockets == [clientWs |-> 0, ws |-> << >>]

\* new NdjsonParser(onMessage): buffer "", nothing fed
noParser ==
    [buffer |-> << >>, delivered |-> << >>, rest |-> << >>, fed |-> << >>,
     values |-> << >>, chunks |-> 0, flushes |-> 0]

\* no connect wait has begun
noWait == << >>

InitSessions ==
    /\ sessions = << >>
    /\ messages = << >>
    /\ activeSessions = << >>
    /\ usedPorts = {}
    /\ nextId = 1
    /\ create = << >>
    /\ bridge = << >>
    /\ cli = << >>
    /\ createError = [kind |-> "none"]
    /\ received = << >>
    /\ called = [op |-> "none", session |-> NullInt, outcome |-> "return",
                 events |-> << >>, sent |-> << >>]
    /\ now = 1
    /\ projects = Projects
    /\ bus = noBus
    /\ arrived = << >>
    /\ sockets = noSockets
    /\ ndjson = noParser
    /\ wait = noWait
    /\ transcript = << >>

(* --------------------------- engine operations ------------------------- *)

InitPerm ==
    /\ InitSessions
    /\ permission_rules = << >>
    /\ permission_log = << >>
    /\ nextRuleId = 1
    /\ lastCall = [op |-> "none", outcome |-> "return"]

createRule(projectId, input) ==
    /\ permission_rules' =
           [id \in DOMAIN permission_rules \cup {nextRuleId} |->
               IF id = nextRuleId THEN newRule(nextRuleId, projectId, input)
               ELSE permission_rules[id]]
    /\ nextRuleId' = nextRuleId + 1
    /\ lastCall' = [op |-> "createRule", outcome |-> "return"]
    /\ UNCHANGED permission_log

\* every key of the payload written, whatever the column
updatedRule_anyKey(rule, updates) ==
    LET col(k, old) == IF k \in updates.K THEN updates[k] ELSE old
    IN  [id |-> IF "id" \in updates.K THEN NoRule ELSE rule.id,
         project_id |-> IF "project_id" \in updates.K THEN NULL ELSE rule.project_id,
         tool_name |-> col("tool_name", rule.tool_name),
         rule_content |-> col("rule_content", rule.rule_content),
         behavior |-> col("behavior", rule.behavior),
         priority |-> col("priority", rule.priority)]

\* the row after UPDATE permission_rules SET <fields> WHERE id = $id
updatedRule(rule, updates) ==
    LET fields == updates.K \cap ALLOWED_COLUMNS
        col(k, old) == IF k \in fields THEN updates[k] ELSE old
    IN  [id |-> rule.id, project_id |-> rule.project_id,
         tool_name |-> col("tool_name", rule.tool_name),
         rule_content |-> col("rule_content", rule.rule_content),
         behavior |-> col("behavior", rule.behavior),
         priority |-> col("priority", rule.priority)]

updateRule(ruleId, updates) ==
    /\ permission_rules' =
           [id \in DOMAIN permission_rules |->
               IF id = ruleId THEN updatedRule(permission_rules[id], updates)
               ELSE permission_rules[id]]
    /\ lastCall' = [op |-> "updateRule", outcome |-> "return"]
    /\ UNCHANGED <<permission_log, nextRuleId>>

\* permission_log.rule_id REFERENCES permission_rules(id), foreign_keys = ON
ruleIsLogged(ruleId) ==
    \E i \in 1..Len(permission_log) : permission_log[i].rule_id = ruleId

deleteRule(ruleId) ==
    /\ IF ruleIsLogged(ruleId)
       THEN /\ lastCall' = [op |-> "deleteRule", outcome |-> "throw"]
            /\ UNCHANGED permission_rules
       ELSE /\ permission_rules' =
                   [id \in DOMAIN permission_rules \ {ruleId} |-> permission_rules[id]]
            /\ lastCall' = [op |-> "deleteRule", outcome |-> "return"]
    /\ UNCHANGED <<permission_log, nextRuleId>>

evaluateCall(outcome, sessionId, requestId, toolName, toolInput, behavior) ==
    [op |-> "evaluate", outcome |-> outcome, session_id |-> sessionId,
     request_id |-> requestId, tool_name |-> toolName, tool_input |-> toolInput,
     behavior |-> behavior]

\* permissionEngine.evaluate: the decision, its audit row, the return; the
\* INSERT fails when sessions holds no row with the session id
Evaluate(sessionId, projectId, requestId, toolName, toolInput) ==
    /\ \E d \in evaluate(permission_rules, projectId, toolName, toolInput) :
          IF sessionId \in LoggedSessions
          THEN /\ permission_log' =
                      logDecision(permission_log,
                                  logRow(sessionId, requestId, toolName, toolInput, d))
               /\ lastCall' = evaluateCall("return", sessionId, requestId, toolName,
                                           toolInput, d.behavior)
          ELSE /\ lastCall' = evaluateCall("throw", sessionId, requestId, toolName,
                                           toolInput, "none")
               /\ UNCHANGED permission_log
    /\ UNCHANGED <<permission_rules, nextRuleId>>

\* evaluations over a rule table the store already holds
InitEval ==
    /\ InitSessions
    /\ permission_rules \in RuleTables(MaxRules)
    /\ permission_log = << >>
    /\ nextRuleId = Len(permission_rules) + 1
    /\ lastCall = [op |-> "none", outcome |-> "return"]

NextEval ==
    /\ Len(permission_log) < MaxLogEval
    /\ \E r \in Requests :
          Evaluate("S", projectOf("S"), "req-1", r.tool_name, r.tool_input)
    /\ UNCHANGED sessVars

SpecPerm == InitEval /\ [][NextEval]_vars

\* rule maintenance interleaved with evaluations
AuditCall ==
    \/ /\ nextRuleId <= MaxRulesAudit
       /\ \E p \in Projects \cup {NULL}, input \in AuditRuleInputs : createRule(p, input)
    \/ \E id \in 1..MaxRulesAudit, updates \in UpdateInputs : updateRule(id, updates)
    \/ \E id \in 1..MaxRulesAudit : deleteRule(id)
    \/ /\ Len(permission_log) < MaxLog
       /\ \E c \in AuditCalls :
             Evaluate(c[1], projectOf(c[1]), c[2], "Bash", [command |-> s_git_c])

NextAudit == AuditCall /\ UNCHANGED sessVars

SpecAudit == InitPerm /\ [][NextAudit]_vars

(* ------------------------- permission claims --------------------------- *)

\* the last call was an evaluate that returned: the rules are those it read
\* and the last log row is the one it wrote
evaluated == lastCall.op = "evaluate" /\ lastCall.outcome = "return"

lastRow == permission_log[Len(permission_log)]

\* the rules of one group that match the request of the last call
matchingGroup(projectId, behavior) ==
    {id \in DOMAIN permission_rules :
        /\ permission_rules[id].project_id = projectId
        /\ permission_rules[id].behavior = behavior
        /\ matchesRule(permission_rules[id], lastCall.tool_name, lastCall.tool_input)}

\* the groups in the order the claim gives them
groupOrder ==
    <<matchingGroup(projectOf(lastCall.session_id), "deny"),
      matchingGroup(NULL, "deny"),
      matchingGroup(projectOf(lastCall.session_id), "allow"),
      matchingGroup(NULL, "allow")>>

groupBehavior == <<"deny", "deny", "allow", "allow">>

\* C1: evaluate decides by the first non-empty group of project deny, global
\* deny, project allow, global allow; the logged rule is a rule of that group
\* that no matching rule of the group outranks, the decision is the group's,
\* the source is auto_rule; so any matching deny rule beats every allow rule.
C1_FixedOrder ==
    evaluated =>
        \A g \in 1..4 :
            (groupOrder[g] # {} /\ \A h \in 1..(g - 1) : groupOrder[h] = {}) =>
                /\ lastCall.behavior = groupBehavior[g]
                /\ lastRow.decision = groupBehavior[g]
                /\ lastRow.decision_source = "auto_rule"
                /\ lastRow.rule_id \in groupOrder[g]
                /\ \A other \in groupOrder[g] :
                      permission_rules[other].priority
                          <= permission_rules[lastRow.rule_id].priority

\* a matching deny rule has beaten a matching allow rule of higher priority
C1_Witness ==
    /\ evaluated
    /\ lastRow.decision = "deny"
    /\ lastRow.rule_id # NoRule
    /\ \E a \in groupOrder[3] \cup groupOrder[4] :
          permission_rules[a].priority > permission_rules[lastRow.rule_id].priority

isTerminal(status) == status \in {"closed", "error"}

VALID_PERMISSION_MODES ==
    {"acceptEdits", "bypassPermissions", "default", "delegate", "dontAsk", "plan"}

\* the row create() inserts
newSession(port) ==
    [status |-> "starting", session_id |-> "", ws_port |-> port, cli_pid |-> NullInt,
     total_cost_usd |-> 0, total_input_tokens |-> 0, total_output_tokens |-> 0,
     num_turns |-> 0, error_message |-> "", closed_at |-> NullInt]

noMessages == [user |-> 0, result |-> 0]

\* no bridge server yet, no agent attached
noBridge == [listening |-> FALSE, clientWs |-> FALSE]

\* no result frame handled yet
noneReceived == [n |-> 0, last |-> [type |-> "result"]]

\* Map.set(key, value), INSERT of the row with that key
with(table, key, value) ==
    [k \in DOMAIN table \cup {key} |-> IF k = key THEN value ELSE table[k]]

\* the part of the state the handlers below rewrite, as one value
here ==
    [sessions |-> sessions, activeSessions |-> activeSessions,
     usedPorts |-> usedPorts, bridge |-> bridge, events |-> << >>]

\* eventBus.emit({ type, session_id, data })
emit(st, type, s, data) ==
    [st EXCEPT !.events = Append(@, [type |-> type, session_id |-> s, data |-> data])]

\* usedPorts.delete(port)
releasePort(st, port) == [st EXCEPT !.usedPorts = @ \ {port}]

\* bridge.close(): wss.close(); the attached client socket is not touched
bridgeClose(st, s) == [st EXCEPT !.bridge[s].listening = FALSE]

\* activeSessions.delete(id)
activeDelete(st, s) ==
    [st EXCEPT !.activeSessions =
        [a \in DOMAIN st.activeSessions \ {s} |-> st.activeSessions[a]]]

\* UPDATE sessions SET status = $status WHERE id = $id
updateStatus(st, s, status) ==
    emit(IF s \in DOMAIN st.sessions
         THEN [st EXCEPT !.sessions[s].status = status]
         ELSE st,
         "session.status", s, status)

\* UPDATE sessions SET status, error_message, closed_at = $now WHERE id = $id
closeRow(st, s, status, errorMessage) ==
    IF s \in DOMAIN st.sessions
    THEN [st EXCEPT !.sessions[s].status = status,
                    !.sessions[s].error_message = errorMessage,
                    !.sessions[s].closed_at = now]
    ELSE st

\* the status alone written, as updateStatus does
closeRowKilled_statusOnly(st, s) == updateStatus(st, s, "closed")

\* UPDATE sessions SET status = 'closed', closed_at = $now WHERE id = $id
closeRowKilled(st, s) ==
    IF s \in DOMAIN st.sessions
    THEN [st EXCEPT !.sessions[s].status = "closed", !.sessions[s].closed_at = now]
    ELSE st

\* a || b on strings
orElse(a, b) == IF a # "" THEN a ELSE b

\* handleProcessExit(sessionId, port); stderr is what the launcher captured
handleProcessExit(st, s, port, captured) ==
    LET released == releasePort(st, port)
        active == s \in DOMAIN st.activeSessions
        stderr == IF active THEN captured ELSE ""
        dropped == IF active THEN activeDelete(bridgeClose(released, s), s)
                   ELSE released
        status == dropped.sessions[s].status
        neverBecameActive == status \in {"starting", "idle"}
        wasActive == status = "active"
        finalStatus == IF wasActive \/ (neverBecameActive /\ stderr # "")
                       THEN "error" ELSE "closed"
        errorMessage ==
            orElse(stderr, IF wasActive
                           THEN "CLI process exited unexpectedly during active turn"
                           ELSE "")
        reason == IF neverBecameActive THEN "cli_exited_before_connect"
                  ELSE "unexpected_exit"
        closed == closeRow(dropped, s, finalStatus, errorMessage)
    IN  IF s \in DOMAIN dropped.sessions /\ status # "closed"
        THEN IF finalStatus = "error"
             THEN emit(closed, "session.error", s, reason)
             ELSE closed
        ELSE dropped

\* the catch block of create()'s connect wait
connectFailed(st, s, port, stderr, message) ==
    emit(closeRow(releasePort(bridgeClose(activeDelete(st, s), s), port),
                  s, "error", orElse(stderr, message)),
         "session.error", s, "cli_failed_to_connect")

\* the primed variables take the values of st
becomes(st) ==
    /\ sessions' = st.sessions
    /\ activeSessions' = st.activeSessions
    /\ usedPorts' = st.usedPorts
    /\ bridge' = st.bridge

\* what the handler op, run for session s, gave its caller and the outside
call(op, s, outcome, events, sent) ==
    [op |-> op, session |-> s, outcome |-> outcome, events |-> events,
     sent |-> sent]

\* the handler ends: the state is st, the events emitted are those of st
ends(op, s, outcome, st, sent) ==
    /\ becomes(st)
    /\ called' = call(op, s, outcome, st.events, sent)

\* cli.kill(): SIGTERM to a subprocess that still runs
signalled(s) == [cli EXCEPT ![s] = IF @ = "running" THEN "signalled" ELSE @]

failed(kind, s, port) == [kind |-> kind, session |-> s, port |-> port]

noError == [kind |-> "none"]

(* ------------------------ session manager: create ---------------------- *)

\* the highest free port, as a downward scan would return
lowestFree_highest(used) ==
    CHOOSE p \in Ports \ used : \A q \in Ports \ used : p >= q

\* allocatePort(): the lowest port of the range not in usedPorts
lowestFree(used) ==
    CHOOSE p \in Ports \ used : \A q \in Ports \ used : p <= q

\* create(), up to its first await: the cap check, the port, the
\* permission mode, the session row
CreateCall(permissionMode) ==
    IF Cardinality(DOMAIN activeSessions) >= maxSessionsGlobal
    THEN /\ createError' = failed("ConflictError: sessions", NullInt, NullInt)
         /\ called' = call("create", NullInt, "ConflictError", << >>, << >>)
         /\ UNCHANGED <<sessions, messages, activeSessions, usedPorts, nextId,
                        create, bridge, cli, received, now>>
    ELSE IF Ports \ usedPorts = {}
    THEN /\ createError' = failed("ConflictError: ports", NullInt, NullInt)
         /\ called' = call("create", NullInt, "ConflictError", << >>, << >>)
         /\ UNCHANGED <<sessions, messages, activeSessions, usedPorts, nextId,
                        create, bridge, cli, received, now>>
    ELSE LET port == lowestFree(usedPorts)
         IN  IF permissionMode # "" /\ permissionMode \notin VALID_PERMISSION_MODES
             THEN /\ usedPorts' = usedPorts \cup {port}
                  /\ createError' = failed("ValidationError", NullInt, port)
                  /\ called' = call("create", NullInt, "ValidationError", << >>, << >>)
                  /\ UNCHANGED <<sessions, messages, activeSessions, nextId,
                                 create, bridge, cli, received, now>>
             ELSE /\ usedPorts' = usedPorts \cup {port}
                  /\ sessions' = with(sessions, nextId, newSession(port))
                  /\ messages' = with(messages, nextId, noMessages)
                  /\ create' = with(create, nextId, "bridge")
                  /\ bridge' = with(bridge, nextId, noBridge)
                  /\ cli' = with(cli, nextId, "none")
                  /\ received' = with(received, nextId, noneReceived)
                  /\ nextId' = nextId + 1
                  /\ createError' = noError
                  /\ called' = call("create", nextId, "await", << >>, << >>)
                  /\ UNCHANGED <<activeSessions, now>>

\* another bridge server listens on the port
portBound(s) ==
    \E o \in DOMAIN sessions \ {s} :
        bridge[o].listening /\ sessions[o].ws_port = sessions[s].ws_port

\* createBridgeServer resolved and launchCli returned: pid stored, session
\* tracked, exit monitored, the connect wait begun
BridgeListening(s) ==
    /\ create[s] = "bridge"
    /\ ~portBound(s)
    /\ bridge' = [bridge EXCEPT ![s].listening = TRUE]
    /\ cli' = [cli EXCEPT ![s] = "running"]
    /\ sessions' = [sessions EXCEPT ![s].cli_pid = s]
    /\ activeSessions' = with(activeSessions, s, [cliSessionId |-> ""])
    /\ create' = [create EXCEPT ![s] = "connect"]
    /\ createError' = noError
    /\ called' = call("create", s, "await", << >>, << >>)
    /\ UNCHANGED <<messages, usedPorts, nextId, received, now>>

\* createBridgeServer resolved and launchCli threw
SpawnFailed(s) ==
    /\ create[s] = "bridge"
    /\ ~portBound(s)
    /\ ends("create", s, "SpawnError",
            closeRow(releasePort(bridgeClose(here, s), sessions[s].ws_port),
                     s, "error", "spawn failed"),
            << >>)
    /\ create' = [create EXCEPT ![s] = "failed"]
    /\ createError' = failed("SpawnError", s, sessions[s].ws_port)
    /\ UNCHANGED <<messages, nextId, cli, received, now>>

\* createBridgeServer rejected (the port could not be bound): the await
\* throws out of create()
BridgeError(s) ==
    /\ create[s] = "bridge"
    /\ create' = [create EXCEPT ![s] = "failed"]
    /\ createError' = failed("BridgeError", s, sessions[s].ws_port)
    /\ called' = call("create", s, "BridgeError", << >>, << >>)
    /\ UNCHANGED <<sessions, messages, activeSessions, usedPorts, nextId, bridge,
                   cli, received, now>>

\* wss "connection": the agent attaches; a pending connect wait resolves and
\* create() marks the session idle and returns
ClientConnect(s) ==
    /\ bridge[s].listening
    /\ cli[s] \in {"running", "signalled"}
    /\ LET attached == [here EXCEPT !.bridge[s].clientWs = TRUE]
       IN  IF create[s] = "connect"
           THEN /\ ends("create", s, "return", updateStatus(attached, s, "idle"),
                        << >>)
                /\ create' = [create EXCEPT ![s] = "done"]
           ELSE /\ ends("connection", s, "return", attached, << >>)
                /\ UNCHANGED create
    /\ createError' = noError
    /\ UNCHANGED <<messages, nextId, cli, received, now>>

\* ws "close": the attached socket is gone
ClientClose(s) ==
    /\ bridge[s].clientWs
    /\ bridge' = [bridge EXCEPT ![s].clientWs = FALSE]
    /\ createError' = noError
    /\ called' = call("close", s, "return", << >>, << >>)
    /\ UNCHANGED <<sessions, messages, activeSessions, usedPorts, nextId, create,
                   cli, received, now>>

\* the 15 s timer of the connect wait fires: the wait rejects, the catch
\* block cleans up and signals the subprocess
ConnectTimeout(s, stderr) ==
    /\ create[s] = "connect"
    /\ ends("create", s, "timeout",
            connectFailed(here, s, sessions[s].ws_port, stderr,
                          "CLI failed to connect to bridge within 15s"),
            << >>)
    /\ cli' = signalled(s)
    /\ create' = [create EXCEPT ![s] = "failed"]
    /\ createError' = failed("timeout", s, sessions[s].ws_port)
    /\ UNCHANGED <<messages, nextId, received, now>>

\* the subprocess exits: the launcher's exit callback runs
\* handleProcessExit, and a pending connect wait rejects into the catch block
ProcessExit(s, stderr) ==
    /\ cli[s] \in {"running", "signalled"}
    /\ cli' = [cli EXCEPT ![s] = "exited"]
    /\ LET port == sessions[s].ws_port
           exited == handleProcessExit(here, s, port, stderr)
       IN  IF create[s] = "connect"
           THEN /\ ends("exit", s, "create: exit",
                        connectFailed(exited, s, port, stderr,
                                      "CLI process exited before connecting to bridge"),
                        << >>)
                /\ create' = [create EXCEPT ![s] = "failed"]
                /\ createError' = failed("exit", s, port)
           ELSE /\ ends("exit", s, "return", exited, << >>)
                /\ createError' = noError
                /\ UNCHANGED create
    /\ UNCHANGED <<messages, nextId, received, now>>

(* ------------------ session manager: calls and frames ------------------ *)

\* kill(sessionId), for any id of the table
Kill(s) ==
    /\ s \in DOMAIN sessions
    /\ LET dropped ==
             IF s \in DOMAIN activeSessions
             THEN activeDelete(releasePort(bridgeClose(here, s), sessions[s].ws_port), s)
             ELSE here
       IN  ends("kill", s, "return",
                emit(closeRowKilled(dropped, s), "session.closed", s, ""), << >>)
    /\ cli' = IF s \in DOMAIN activeSessions THEN signalled(s) ELSE cli
    /\ createError' = noError
    /\ UNCHANGED <<messages, nextId, create, received, now>>

\* the user frame of sendMessage
userFrame == [type |-> "user"]

\* the frame written twice
bridgeSend_twice(b, frame) == IF b.clientWs THEN <<frame, frame>> ELSE << >>

\* bridge.send(message): written to the attached open client, else dropped
\* with a warning
bridgeSend(b, frame) == IF b.clientWs THEN <<frame>> ELSE << >>

\* sendMessage(sessionId, content)
SendMessage(s) ==
    /\ IF s \notin DOMAIN activeSessions
       THEN /\ called' = call("sendMessage", s, "NotFoundError", << >>, << >>)
            /\ UNCHANGED <<sessions, activeSessions, usedPorts, bridge, messages>>
       ELSE IF ~bridge[s].clientWs
       THEN /\ called' = call("sendMessage", s, "ConflictError", << >>, << >>)
            /\ UNCHANGED <<sessions, activeSessions, usedPorts, bridge, messages>>
       ELSE /\ ends("sendMessage", s, "return", updateStatus(here, s, "active"),
                    bridgeSend(bridge[s], userFrame))
            /\ messages' = [messages EXCEPT ![s].user = @ + 1]
    /\ createError' = noError
    /\ UNCHANGED <<nextId, create, cli, received, now>>

\* every init frame of a tracked session taken for the first
firstInit_always(st, s) == s \in DOMAIN st.activeSessions

\* active && !active.cliSessionId
firstInit(st, s) ==
    s \in DOMAIN st.activeSessions /\ st.activeSessions[s].cliSessionId = ""

\* the system/init frame of a turn; session_id "" stands for a frame
\* without the field; the event carries the frame
OnSystemInit(s, cliSessionId) ==
    /\ bridge[s].clientWs
    /\ LET captured ==
               IF firstInit(here, s)
               THEN [here EXCEPT !.sessions[s].session_id = cliSessionId,
                                 !.activeSessions[s].cliSessionId = cliSessionId]
               ELSE here
       IN  ends("system", s, "return",
                emit(updateStatus(captured, s, "active"), "session.message", s,
                     cliSessionId),
                << >>)
    /\ createError' = noError
    /\ UNCHANGED <<messages, nextId, create, cli, received, now>>

\* frame[name] ?? 0
orZero(frame, name) == IF name \in DOMAIN frame THEN frame[name] ELSE 0

\* frame.usage?.[name] ?? 0
usageOrZero(frame, name) ==
    IF "usage" \in DOMAIN frame THEN orZero(frame.usage, name) ELSE 0

\* the totals added to the old ones instead of replacing them
resultUpdate_add(row, frame) ==
    [row EXCEPT !.total_cost_usd = @ + orZero(frame, "total_cost_usd"),
                !.total_input_tokens = @ + usageOrZero(frame, "input_tokens"),
                !.total_output_tokens = @ + usageOrZero(frame, "output_tokens"),
                !.num_turns = @ + 1,
                !.status = "idle"]

\* the UPDATE of onResult
resultUpdate(row, frame) ==
    [row EXCEPT !.total_cost_usd = orZero(frame, "total_cost_usd"),
                !.total_input_tokens = usageOrZero(frame, "input_tokens"),
                !.total_output_tokens = usageOrZero(frame, "output_tokens"),
                !.num_turns = @ + 1,
                !.status = "idle"]

\* the result frame of a turn
OnResult(s, frame) ==
    /\ bridge[s].clientWs
    /\ ends("result", s, "return",
            emit(updateStatus([here EXCEPT !.sessions[s] = resultUpdate(@, frame)],
                              s, "idle"),
                 "session.result", s, "result"),
            << >>)
    /\ messages' = [messages EXCEPT ![s].result = @ + 1]
    /\ received' = [received EXCEPT ![s] = [n |-> @.n + 1, last |-> frame]]
    /\ createError' = noError
    /\ UNCHANGED <<nextId, create, cli, now>>

(* ---------------------- session manager: behaviours -------------------- *)

Stderrs == {"", "spawn ENOENT"}

\* cost in cents
frameFull == [type |-> "result", total_cost_usd |-> 5,
              usage |-> [input_tokens |-> 100, output_tokens |-> 50]]
frameLater == [type |-> "result", total_cost_usd |-> 12,
               usage |-> [input_tokens |-> 240, output_tokens |-> 130]]
frameNoUsage == [type |-> "result", total_cost_usd |-> 7]
frameBare == [type |-> "result", usage |-> [input_tokens |-> 30]]

\* create() and what ends a session
Lifecycle(maxSessions, modes, stderrs) ==
    \/ \E mode \in modes : nextId <= maxSessions /\ CreateCall(mode)
    \/ \E s \in DOMAIN sessions : BridgeListening(s)
    \/ \E s \in DOMAIN sessions : SpawnFailed(s)
    \/ \E s \in DOMAIN sessions : BridgeError(s)
    \/ \E s \in DOMAIN sessions : ClientConnect(s)
    \/ \E s \in DOMAIN sessions, stderr \in stderrs : ConnectTimeout(s, stderr)
    \/ \E s \in DOMAIN sessions, stderr \in stderrs : ProcessExit(s, stderr)
    \/ \E s \in DOMAIN sessions : Kill(s)

\* the turns of a connected session
Traffic(agentIds, frames, maxTurns) ==
    \/ \E s \in DOMAIN sessions : ClientClose(s)
    \/ \E s \in DOMAIN sessions : messages[s].user < maxTurns /\ SendMessage(s)
    \/ \E s \in DOMAIN sessions, a \in agentIds : OnSystemInit(s, a)
    \/ \E s \in DOMAIN sessions, f \in frames :
           received[s].n < maxTurns /\ OnResult(s, f)

Init == InitPerm

\* two sessions, every operation
Next ==
    /\ \/ Lifecycle(NumSessions, {"default", "yolo"}, Stderrs)
       \/ Traffic({"agent-1"}, {frameFull}, MaxTurns)
    /\ UNCHANGED <<permVars, projects, bus, arrived, sockets, ndjson, wait, transcript>>

Spec == Init /\ [][Next]_vars

\* more sessions than the cap and as many as ports, their lifecycle only
NextPorts ==
    /\ Lifecycle(NumPortSessions, {"default"}, {""})
    /\ UNCHANGED <<permVars, projects, bus, arrived, sockets, ndjson, wait, transcript>>

SpecPorts == Init /\ [][NextPorts]_vars

\* the sessions that come up, their result frames, and what ends them
NextResult ==
    /\ \/ nextId <= NumResultSessions /\ CreateCall("default")
       \/ \E s \in DOMAIN sessions : BridgeListening(s)
       \/ \E s \in DOMAIN sessions : ClientConnect(s)
       \/ \E s \in DOMAIN sessions : ProcessExit(s, "")
       \/ \E s \in DOMAIN sessions : Kill(s)
       \/ \E s \in DOMAIN sessions : OnSystemInit(s, "agent-1")
       \/ \E s \in DOMAIN sessions,
              f \in {frameFull, frameLater, frameNoUsage, frameBare} :
              received[s].n < MaxResults /\ OnResult(s, f)
    /\ UNCHANGED <<permVars, projects, bus, arrived, sockets, ndjson, wait, transcript>>

SpecResult == Init /\ [][NextResult]_vars

\* every call and every frame, for the sessions that come up
NextCalls ==
    /\ \/ Lifecycle(NumCallSessions, {"default"}, {""})
       \/ Traffic({"agent-1"}, {frameFull}, MaxCalls)
    /\ UNCHANGED <<permVars, projects, bus, arrived, sockets, ndjson, wait, transcript>>

SpecCalls == Init /\ [][NextCalls]_vars

(* ------------------- bridge: permission requests ----------------------- *)

NumBridgeSessions == 1

MaxRulesBridge == 1

MaxRequests == 2

\* the can_use_tool control_request lines one ws message may carry
controlRequest(requestId) ==
    [request_id |-> requestId, tool_name |-> "Bash", tool_input |-> [command |-> s_git_c]]

ControlRequests ==
    {<<controlRequest("req-1")>>, <<controlRequest("req-2")>>,
     <<controlRequest("req-1"), controlRequest("req-2")>>}

\* the rules created while requests are answered
BridgeRuleInputs ==
    {input \in RuleInputs :
        input.priority = 0 /\ input.tool_name = "Bash" /\ input.rule_content = s_empty}

\* the ServerControlResponse onPermissionRequest builds
controlResponse(requestId, d) ==
    [type |-> "control_response", subtype |-> "can_use_tool_result",
     request_id |-> requestId, behavior |-> d.behavior]

\* the frames written for the decisions ds of the requests reqs, in order
RECURSIVE responses(_, _, _)
responses(b, reqs, ds) ==
    IF reqs = << >> THEN << >>
    ELSE bridgeSend(b, controlResponse(Head(reqs).request_id, Head(ds)))
         \o responses(b, Tail(reqs), Tail(ds))

\* ws "message" with can_use_tool control_request lines: routeMessage calls
\* onPermissionRequest for each line, which evaluates and logs at once and
\* sends its response in a microtask; the INSERT of the audit row throws
\* when table sessions holds no row of the session, the promise rejects
\* and nothing is sent
OnPermissionRequest(s, reqs) ==
    /\ bridge[s].clientWs
    /\ \E ds \in [1..Len(reqs) -> [behavior : {"allow", "deny"},
                                    source : {"auto_rule", "auto_default"},
                                    rule_id : DOMAIN permission_rules \cup {NoRule}]] :
          /\ \A i \in 1..Len(reqs) :
                 ds[i] \in evaluate(permission_rules, "P", reqs[i].tool_name,
                                    reqs[i].tool_input)
          /\ LET last == reqs[Len(reqs)]
             IN  IF s \in DOMAIN sessions
                 THEN /\ permission_log' =
                             permission_log \o
                             [i \in 1..Len(reqs) |->
                                 logRow(s, reqs[i].request_id, reqs[i].tool_name,
                                        reqs[i].tool_input, ds[i])]
                      /\ lastCall' = evaluateCall("return", s, last.request_id,
                                                  last.tool_name, last.tool_input,
                                                  ds[Len(reqs)].behavior)
                      /\ called' = call("control_request", s, "return", << >>,
                                        responses(bridge[s], reqs, ds))
                 ELSE /\ lastCall' = evaluateCall("throw", s, last.request_id,
                                                  last.tool_name, last.tool_input,
                                                  "none")
                      /\ called' = call("control_request", s, "rejected", << >>, << >>)
                      /\ UNCHANGED permission_log
    /\ createError' = noError
    /\ UNCHANGED <<permission_rules, nextRuleId, sessions, messages, activeSessions,
                   usedPorts, nextId, create, bridge, cli, received, now, projects,
                   bus, arrived, sockets, ndjson, wait, transcript>>

\* kill(sessionId) as a function of the state
killed(st, s) ==
    LET dropped ==
            IF s \in DOMAIN st.activeSessions
            THEN activeDelete(releasePort(bridgeClose(st, s), st.sessions[s].ws_port), s)
            ELSE st
    IN  emit(closeRowKilled(dropped, s), "session.closed", s, "")

\* kill() of the sessions S, in the order of their ids
RECURSIVE killAll(_, _)
killAll(st, S) ==
    IF S = {} THEN st
    ELSE LET s == CHOOSE m \in S : \A o \in S : m <= o
         IN  killAll(killed(st, s), S \ {s})

\* DELETE /api/projects/:id: the tracked sessions of the project are killed,
\* then DELETE FROM projects cascades to the project's rules and sessions
\* and to the messages and log rows of those sessions; every session of
\* the model belongs to the project
DeleteProject(p) ==
    /\ p \in projects
    /\ LET tracked == DOMAIN sessions \cap DOMAIN activeSessions
           st == killAll(here, tracked)
       IN  /\ activeSessions' = st.activeSessions
           /\ usedPorts' = st.usedPorts
           /\ bridge' = st.bridge
           /\ called' = call("deleteProject", NullInt, "return", st.events, << >>)
           /\ cli' = [s \in DOMAIN cli |->
                         IF s \in tracked /\ cli[s] = "running" THEN "signalled"
                         ELSE cli[s]]
    /\ projects' = projects \ {p}
    /\ sessions' = << >>
    /\ messages' = << >>
    /\ permission_rules' =
           [id \in {r \in DOMAIN permission_rules :
                       permission_rules[r].project_id # p} |-> permission_rules[id]]
    /\ permission_log' =
           SelectSeq(permission_log, LAMBDA row : row.session_id \notin DOMAIN sessions)
    /\ lastCall' = [op |-> "deleteProject", outcome |-> "return"]
    /\ createError' = noError
    /\ UNCHANGED <<nextRuleId, nextId, create, received, now, bus, arrived, sockets, ndjson, wait, transcript>>

\* one session of the project, its agent, the rules and the project itself
NextBridge ==
    \/ /\ "P" \in projects /\ nextId <= NumBridgeSessions
       /\ CreateCall("default")
       /\ UNCHANGED <<permVars, projects, bus, arrived, sockets, ndjson, wait, transcript>>
    \/ /\ \E s \in DOMAIN sessions : BridgeListening(s)
       /\ UNCHANGED <<permVars, projects, bus, arrived, sockets, ndjson, wait, transcript>>
    \/ /\ \E s \in DOMAIN sessions : ClientConnect(s)
       /\ UNCHANGED <<permVars, projects, bus, arrived, sockets, ndjson, wait, transcript>>
    \/ /\ \E s \in DOMAIN bridge : ClientClose(s)
       /\ UNCHANGED <<permVars, projects, bus, arrived, sockets, ndjson, wait, transcript>>
    \/ /\ \E s \in DOMAIN sessions : Kill(s)
       /\ UNCHANGED <<permVars, projects, bus, arrived, sockets, ndjson, wait, transcript>>
    \/ /\ nextRuleId <= MaxRulesBridge
       /\ \E p \in projects \cup {NULL}, input \in BridgeRuleInputs : createRule(p, input)
       /\ UNCHANGED sessVars
    \/ \E p \in Projects : DeleteProject(p)
    \/ \E s \in DOMAIN bridge, reqs \in ControlRequests :
          /\ Len(permission_log) + Len(reqs) <= MaxRequests
          /\ OnPermissionRequest(s, reqs)

SpecBridge == Init /\ [][NextBridge]_vars

(* ---------------------- session manager: ports ------------------------ *)

NumAllocSessions == 2

\* rawMode: a valid mode, an unknown one, the empty string
GivenModes == {"default", "yolo", ""}

\* create() calls with valid and invalid permission modes, and kill(), which
\* releases a port below one still held
NextAlloc ==
    /\ \/ \E mode \in GivenModes :
             nextId <= NumAllocSessions /\ CreateCall(mode)
       \/ \E s \in DOMAIN sessions : BridgeListening(s)
       \/ \E s \in DOMAIN sessions : Kill(s)
    /\ UNCHANGED <<permVars, projects, bus, arrived, sockets, ndjson, wait, transcript>>

SpecAlloc == Init /\ [][NextAlloc]_vars

(* ------------------- session manager: agent session id ----------------- *)

NumInitSessions == 1

\* the session_id of the init frames: absent, and two different ids
InitFrameIds == {"", "agent-1", "agent-2"}

\* one session, its agent and the init frames of its turns
NextInit ==
    /\ \/ nextId <= NumInitSessions /\ CreateCall("default")
       \/ \E s \in DOMAIN sessions : BridgeListening(s)
       \/ \E s \in DOMAIN sessions : ClientConnect(s)
       \/ \E s \in DOMAIN sessions : ClientClose(s)
       \/ \E s \in DOMAIN sessions : ProcessExit(s, "")
       \/ \E s \in DOMAIN sessions : Kill(s)
       \/ \E s \in DOMAIN sessions, a \in InitFrameIds : OnSystemInit(s, a)
       \/ \E s \in DOMAIN sessions : OnResult(s, frameFull) /\ received[s].n < 1
    /\ UNCHANGED <<permVars, projects, bus, arrived, sockets, ndjson, wait, transcript>>

SpecInit == Init /\ [][NextInit]_vars

(* ------------------------------ event bus ------------------------------ *)

MaxSubs == 2

MaxEmits == 2

\* the session ids of events
BusSessionIds == {"A", "B"}

\* the sessionId of a subscription; "" is no filter
BusFilters == {"", "A"}

\* every subscriber takes every event
matches_all(sub, event) == TRUE

\* !(sub.sessionId && sub.sessionId !== event.session_id)
matches(sub, event) == ~(sub.sessionId # "" /\ sub.sessionId # event.session_id)

\* the id of a new subscription taken from the size of the Map
nextSubId_size(b) == Len(b.subscriptions) + 1

\* `sub_${++subCounter}`
nextSubId(b) == b.subCounter + 1

\* Map.set(id, sub): an existing key keeps its place
mapSet(subs, sub) ==
    IF \E i \in 1..Len(subs) : subs[i].id = sub.id
    THEN [i \in 1..Len(subs) |-> IF subs[i].id = sub.id THEN sub ELSE subs[i]]
    ELSE Append(subs, sub)

\* subscribe(handler, sessionId): the handler is the next of b.handlers; it
\* throws or not, and its unsubscribe function holds the id
subscribe(b, sessionId, throws) ==
    LET id == nextSubId(b)
        h == Len(b.handlers) + 1
    IN  [b EXCEPT !.subCounter = @ + 1,
                  !.subscriptions = mapSet(@, [id |-> id, sessionId |-> sessionId, h |-> h]),
                  !.handlers = Append(@, [id |-> id, sessionId |-> sessionId,
                                          throws |-> throws,
                                          cancelled |-> FALSE, to |-> 0,
                                          received |-> << >>]),
                  !.outcome = "return"]

\* the first cancellation of a handler is noted with the emissions so far
cancel(b, hs) ==
    [h \in 1..Len(b.handlers) |->
        IF h \in hs /\ ~b.handlers[h].cancelled
        THEN [b.handlers[h] EXCEPT !.cancelled = TRUE, !.to = Len(b.emitted)]
        ELSE b.handlers[h]]

\* the function subscribe returned to handler h: subscriptions.delete(id)
unsubscribe(b, h) ==
    [b EXCEPT !.subscriptions = SelectSeq(@, LAMBDA sub : sub.id # b.handlers[h].id),
              !.handlers = cancel(b, {h}),
              !.outcome = "return"]

\* clear(): subscriptions.clear()
clear(b) ==
    [b EXCEPT !.subscriptions = << >>,
              !.handlers = cancel(b, 1..Len(b.handlers)),
              !.outcome = "return"]

\* subscriberCount(): subscriptions.size
subscriberCount(b) == Len(b.subscriptions)

\* sub.handler(event)
invoke(hs, h, event) == [hs EXCEPT ![h].received = Append(@, event)]

RECURSIVE deliver(_, _, _, _)

\* the handler's error leaves emit
caught_rethrow(subs, hs, event, i) == [handlers |-> hs, outcome |-> "throw"]

\* catch (err) { log.error(...) }: the loop goes on
caught(subs, hs, event, i) == deliver(subs, hs, event, i + 1)

\* for (const sub of subscriptions.values()), from the i-th on
deliver(subs, hs, event, i) ==
    IF i > Len(subs) THEN [handlers |-> hs, outcome |-> "return"]
    ELSE IF ~matches(subs[i], event) THEN deliver(subs, hs, event, i + 1)
    ELSE IF hs[subs[i].h].throws
    THEN caught(subs, invoke(hs, subs[i].h, event), event, i)
    ELSE deliver(subs, invoke(hs, subs[i].h, event), event, i + 1)

\* eventBus.emit(event); the n-th emission carries n
busEmit(b, sessionId) ==
    LET event == [session_id |-> sessionId, n |-> Len(b.emitted) + 1]
        done == deliver(b.subscriptions, b.handlers, event, 1)
    IN  [b EXCEPT !.emitted = Append(@, event),
                  !.handlers = done.handlers,
                  !.outcome = done.outcome]

Subscribe(sessionId, throws) ==
    /\ bus' = subscribe(bus, sessionId, throws)
    /\ called' = call("subscribe", NullInt, "return", << >>, << >>)

Unsubscribe(h) ==
    /\ bus' = unsubscribe(bus, h)
    /\ called' = call("unsubscribe", h, "return", << >>, << >>)

Clear ==
    /\ bus' = clear(bus)
    /\ called' = call("clear", NullInt, "return", << >>, << >>)

EmitEvent(sessionId) ==
    /\ bus' = busEmit(bus, sessionId)
    /\ called' = call("emit", NullInt, bus'.outcome, << >>, << >>)

\* subscribers come and go while events are emitted
NextBus ==
    /\ \/ \E sessionId \in BusFilters, throws \in BOOLEAN :
             Len(bus.handlers) < MaxSubs /\ Subscribe(sessionId, throws)
       \/ \E h \in 1..Len(bus.handlers) : Unsubscribe(h)
       \/ Clear
       \/ \E sessionId \in BusSessionIds :
             Len(bus.emitted) < MaxEmits /\ EmitEvent(sessionId)
    /\ UNCHANGED <<permVars, sessions, messages, activeSessions, usedPorts, nextId,
                   create, bridge, cli, createError, received, now, projects,
                   arrived, sockets, ndjson, wait, transcript>>

SpecBus == Init /\ [][NextBus]_vars

(* ------------------------- bridge: inbound frames ---------------------- *)

NumOrderSessions == 1

MaxFrames == 3

MaxOrderSubs == 1

\* the session id as events and subscriptions carry it
busId(s) == IF s = 1 THEN "A" ELSE "B"

frameInit == [type |-> "system", session_id |-> "agent-1"]
frameStream == [type |-> "stream_event"]
frameKeepAlive == [type |-> "keep_alive"]
frameAssistant == [type |-> "assistant"]

\* the lines one ws message may carry
FrameBatches ==
    LET Frames == {frameInit, frameStream, frameKeepAlive, frameFull}
    IN  {<<f>> : f \in Frames} \cup {<<f, g>> : f, g \in Frames}

\* routeMessage with the callbacks of create(): the callback, then emitEvent
routeMessage(st, s, frame) ==
    CASE frame.type = "system" ->
           LET captured ==
                   IF firstInit(st, s)
                   THEN [st EXCEPT !.sessions[s].session_id = frame.session_id,
                                   !.activeSessions[s].cliSessionId = frame.session_id]
                   ELSE st
           IN  emit(updateStatus(captured, s, "active"), "session.message", s,
                    frame.session_id)
      [] frame.type = "assistant" -> emit(st, "session.message", s, "assistant")
      [] frame.type = "stream_event" -> emit(st, "stream.event", s, "stream_event")
      [] frame.type = "result" ->
           emit(updateStatus([st EXCEPT !.sessions[s] = resultUpdate(@, frame)],
                             s, "idle"),
                "session.result", s, "result")
      [] OTHER -> st

\* eventBus.emit called count times for events of one session
RECURSIVE emitAll(_, _, _)
emitAll(b, sessionId, count) ==
    IF count = 0 THEN b ELSE emitAll(busEmit(b, sessionId), sessionId, count - 1)

\* one line handed to the router: the state, the bus, and the numbers of
\* the emissions made for the line
routeOne(r, s, frame) ==
    LET st == routeMessage([r.st EXCEPT !.events = << >>], s, frame)
    IN  [st |-> [st EXCEPT !.events = r.st.events \o st.events],
         b |-> emitAll(r.b, busId(s), Len(st.events)),
         entry |-> [type |-> frame.type,
                    emitted |-> [i \in 1..Len(st.events) |-> Len(r.b.emitted) + i]]]

RECURSIVE routeAll_lastFirst(_, _, _)

\* the lines of a message handed to the router from the last to the first
routeAll_lastFirst(r, s, frames) ==
    IF frames = << >> THEN r
    ELSE LET rest == routeAll_lastFirst([st |-> r.st, b |-> r.b, log |-> << >>], s,
                                        Tail(frames))
             one == routeOne(rest, s, Head(frames))
         IN  [st |-> one.st, b |-> one.b, log |-> r.log \o <<one.entry>> \o rest.log]

RECURSIVE routeAll(_, _, _)

\* NdjsonParser.feed: for (const line of lines) this.onMessage(parsed)
routeAll(r, s, frames) ==
    IF frames = << >> THEN r
    ELSE LET one == routeOne(r, s, Head(frames))
             rest == routeAll([st |-> one.st, b |-> one.b, log |-> << >>], s,
                              Tail(frames))
         IN  [st |-> rest.st, b |-> rest.b, log |-> r.log \o <<one.entry>> \o rest.log]

\* storeMessage(sessionId, direction, messageType, "", content)
storeMessage(rows, direction, messageType) ==
    Append(rows, [direction |-> direction, message_type |-> messageType,
                  timestamp |-> now])

\* every frame is stored
storeFrame_every(rows, frame) == storeMessage(rows, "inbound", frame.type)

\* the callbacks of create(): onAssistant and onResult store the frame,
\* onSystemInit and onStreamEvent store nothing, other frames reach no
\* callback
storeFrame(rows, frame) ==
    IF frame.type \in {"assistant", "result"}
    THEN storeMessage(rows, "inbound", frame.type)
    ELSE rows

RECURSIVE storeFrames(_, _)
storeFrames(rows, frames) ==
    IF frames = << >> THEN rows
    ELSE storeFrames(storeFrame(rows, Head(frames)), Tail(frames))

\* ws "message": the lines of the message parsed and routed one by one; the
\* callbacks onAssistant and onResult store theirs
OnFrames(s, frames) ==
    /\ bridge[s].clientWs
    /\ LET r == routeAll([st |-> here, b |-> bus, log |-> arrived[s]], s, frames)
           results == SelectSeq(frames, LAMBDA f : f.type = "result")
       IN  /\ ends("message", s, "return", r.st, << >>)
           /\ bus' = r.b
           /\ arrived' = [arrived EXCEPT ![s] = r.log]
           /\ messages' = [messages EXCEPT ![s].result = @ + Len(results)]
           /\ transcript' = [transcript EXCEPT ![s] = storeFrames(@, frames)]
           /\ received' =
                  IF results = << >> THEN received
                  ELSE [received EXCEPT ![s] = [n |-> @.n + Len(results),
                                                last |-> results[Len(results)]]]
    /\ createError' = noError
    /\ UNCHANGED <<permVars, nextId, create, cli, now, projects, sockets, ndjson, wait>>

\* the number of frames that have arrived, over the sessions S
RECURSIVE arrivals(_)
arrivals(S) ==
    IF S = {} THEN 0
    ELSE LET s == CHOOSE m \in S : TRUE
         IN  Len(arrived[s]) + arrivals(S \ {s})

\* a session is created: its frame log begins, no message of it is stored
CreateLogged ==
    /\ CreateCall("default")
    /\ arrived' = IF nextId' # nextId THEN with(arrived, nextId, << >>) ELSE arrived
    /\ transcript' = IF nextId' # nextId THEN with(transcript, nextId, << >>)
                     ELSE transcript
    /\ UNCHANGED <<permVars, projects, bus, sockets, ndjson, wait>>

\* one session, its agent's frames, and the subscribers of its events
NextOrder ==
    \/ nextId <= NumOrderSessions /\ CreateLogged
    \/ /\ \/ \E s \in DOMAIN sessions : BridgeListening(s)
          \/ \E s \in DOMAIN sessions : ClientConnect(s)
       /\ UNCHANGED <<permVars, projects, bus, arrived, sockets, ndjson, wait, transcript>>
    \/ /\ \E sessionId \in BusFilters :
             Len(bus.handlers) < MaxOrderSubs /\ Subscribe(sessionId, FALSE)
       /\ UNCHANGED <<permVars, sessions, messages, activeSessions, usedPorts, nextId,
                      create, bridge, cli, createError, received, now, projects,
                      arrived, sockets, ndjson, wait, transcript>>
    \/ \E s \in DOMAIN sessions, frames \in FrameBatches :
          arrivals(DOMAIN arrived) + Len(frames) <= MaxFrames /\ OnFrames(s, frames)

SpecOrder == Init /\ [][NextOrder]_vars

(* ------------------------- bridge: client sockets ---------------------- *)

MaxSockets == 4

\* clientWs is nulled by the close of any socket
onClose_any(k, w) == [k EXCEPT !.clientWs = 0]

\* clientWs is left as it is by every close
onClose_never(k, w) == k

\* ws "close": if (clientWs === ws) clientWs = null
onClose(k, w) == IF k.clientWs = w THEN [k EXCEPT !.clientWs = 0] ELSE k

\* wss "connection": an attached open client is closed with code 1000, the
\* new socket becomes clientWs
onConnection(k) ==
    LET w == Len(k.ws) + 1
        replaced ==
            IF k.clientWs # 0 /\ k.ws[k.clientWs].readyState = "OPEN"
            THEN [k EXCEPT !.ws[k.clientWs] = [readyState |-> "CLOSING", code |-> 1000]]
            ELSE k
    IN  [replaced EXCEPT !.ws = Append(@, [readyState |-> "OPEN", code |-> 0]),
                         !.clientWs = w]

\* isConnected(): clientWs !== null && clientWs.readyState === WebSocket.OPEN
isConnected(k) == k.clientWs # 0 /\ k.ws[k.clientWs].readyState = "OPEN"

\* a client connects to the bridge server
Connection ==
    /\ sockets' = onConnection(sockets)
    /\ called' = call("connection", Len(sockets.ws) + 1, "return", << >>, << >>)

\* the peer of an open socket begins to close it: the socket is CLOSING
\* until the connection is gone
PeerClosing(w) ==
    /\ sockets.ws[w].readyState = "OPEN"
    /\ sockets' = [sockets EXCEPT !.ws[w].readyState = "CLOSING"]
    /\ called' = call("closing", w, "return", << >>, << >>)

\* the connection of a socket is gone: it is CLOSED and its close handler
\* runs
SocketClosed(w) ==
    /\ sockets.ws[w].readyState # "CLOSED"
    /\ sockets' = onClose([sockets EXCEPT !.ws[w].readyState = "CLOSED"], w)
    /\ called' = call("close", w, "return", << >>, << >>)

\* the clients of one bridge server come and go
NextSockets ==
    /\ \/ Len(sockets.ws) < MaxSockets /\ Connection
       \/ \E w \in 1..Len(sockets.ws) : PeerClosing(w)
       \/ \E w \in 1..Len(sockets.ws) : SocketClosed(w)
    /\ UNCHANGED <<permVars, sessions, messages, activeSessions, usedPorts, nextId,
                   create, bridge, cli, createError, received, now, projects, bus,
                   arrived, ndjson, wait, transcript>>

SpecSockets == Init /\ [][NextSockets]_vars

(* -------------------------------- ndjson ------------------------------- *)

MaxValues == 2

MaxText == 3

MaxFlushes == 2

LF == "\n"

\* the text of the JSON value null
nullText == <<"n", "u", "l", "l">>

\* the pieces the texts below are made of
Pieces == {<<"1">>, <<"[">>, <<"]">>, <<" ">>, <<LF>>, nullText}

isSpace(c) == c \in {" ", LF}

RECURSIVE trimStart(_)
trimStart(text) ==
    IF text # << >> /\ isSpace(Head(text)) THEN trimStart(Tail(text)) ELSE text

RECURSIVE trimEnd(_)
trimEnd(text) ==
    IF text # << >> /\ isSpace(text[Len(text)])
    THEN trimEnd(SubSeq(text, 1, Len(text) - 1))
    ELSE text

\* String.prototype.trim
trim(text) == trimEnd(trimStart(text))

\* JSON values: the number n (n > 0) inside depth arrays, or, with n = 0,
\* the empty array inside depth - 1 arrays, or, with n = -1, null inside
\* depth arrays
jsonValue(depth, n) == [depth |-> depth, n |-> n]

JsonValues ==
    {jsonValue(0, 1), jsonValue(0, 11), jsonValue(1, 0), jsonValue(1, 1),
     jsonValue(2, 0), jsonValue(0, -1), jsonValue(1, -1)}

\* SyntaxError
notJson == [ok |-> FALSE, depth |-> 0, n |-> 0]

RECURSIVE digits(_)
digits(n) == IF n = 0 THEN << >> ELSE Append(digits(n \div 10), "1")

leaf(n) == IF n = -1 THEN nullText ELSE digits(n)

RECURSIVE numberOf(_)
numberOf(text) ==
    IF text = << >> THEN 0 ELSE 10 * numberOf(SubSeq(text, 1, Len(text) - 1)) + 1

RECURSIVE nested(_, _)
nested(depth, text) ==
    IF depth = 0 THEN text ELSE <<"[">> \o nested(depth - 1, text) \o <<"]">>

\* JSON.stringify(value)
jsonStringify(v) == nested(v.depth, leaf(v.n))

\* JSON.parse(text): whitespace is allowed around a value
RECURSIVE jsonParse(_)
jsonParse(text) ==
    LET t == trim(text)
    IN  IF t = << >> THEN notJson
        ELSE IF \A i \in 1..Len(t) : t[i] = "1"
        THEN [ok |-> TRUE, depth |-> 0, n |-> numberOf(t)]
        ELSE IF t = nullText THEN [ok |-> TRUE, depth |-> 0, n |-> -1]
        ELSE IF Len(t) >= 2 /\ t[1] = "[" /\ t[Len(t)] = "]"
        THEN LET inner == trim(SubSeq(t, 2, Len(t) - 1))
                 v == jsonParse(inner)
             IN  IF inner = << >> THEN [ok |-> TRUE, depth |-> 1, n |-> 0]
                 ELSE IF v.ok THEN [ok |-> TRUE, depth |-> v.depth + 1, n |-> v.n]
                 ELSE notJson
        ELSE notJson

\* serializeNdjson(obj): JSON.stringify(obj) + "\n"
serializeNdjson(v) == jsonStringify(v) \o <<LF>>

RECURSIVE serializeAll(_)
serializeAll(vs) ==
    IF vs = << >> THEN << >> ELSE serializeNdjson(Head(vs)) \o serializeAll(Tail(vs))

\* String.prototype.split("\n")
RECURSIVE split(_)
split(text) ==
    IF \A i \in 1..Len(text) : text[i] # LF THEN <<text>>
    ELSE LET i == CHOOSE j \in 1..Len(text) :
                      text[j] = LF /\ \A k \in 1..(j - 1) : text[k] # LF
         IN  <<SubSeq(text, 1, i - 1)>> \o split(SubSeq(text, i + 1, Len(text)))

\* (parsed as any).type throws a TypeError when parsed is null
typeError(v) == v.depth = 0 /\ v.n = -1

\* the values the callback is called with for the lines, in order: blank
\* lines are skipped; a line is logged and skipped when JSON.parse rejects
\* it or when reading the type of its value throws, both inside the try
RECURSIVE onLines(_)
onLines(lines) ==
    IF lines = << >> THEN << >>
    ELSE LET trimmed == trim(Head(lines))
             v == jsonParse(trimmed)
         IN  (IF trimmed # << >> /\ v.ok /\ ~typeError(v)
              THEN <<jsonValue(v.depth, v.n)>> ELSE << >>)
             \o onLines(Tail(lines))

\* the incomplete last line is thrown away
kept_none(lines) == << >>

\* this.buffer = lines.pop() ?? ""
kept(lines) == lines[Len(lines)]

\* NdjsonParser.feed(chunk)
feed(p, chunk) ==
    LET lines == split(p.buffer \o chunk)
    IN  [p EXCEPT !.buffer = kept(lines),
                  !.delivered = @ \o onLines(SubSeq(lines, 1, Len(lines) - 1))]

\* NdjsonParser.flush()
flush(p) ==
    IF trim(p.buffer) # << >>
    THEN [p EXCEPT !.delivered = @ \o onLines(<<p.buffer>>), !.buffer = << >>]
    ELSE p

\* the texts of at most n pieces
RECURSIVE Texts(_)
Texts(n) ==
    IF n = 0 THEN {<< >>}
    ELSE LET shorter == Texts(n - 1)
         IN  shorter \cup {text \o piece : text \in shorter, piece \in Pieces}

\* the values vs are serialized for a new parser
Serialize(vs) ==
    /\ ndjson = noParser
    /\ ndjson' = [noParser EXCEPT !.values = vs, !.rest = serializeAll(vs)]
    /\ called' = call("serialize", NullInt, "return", << >>, << >>)

\* a text is on its way to a new parser
Receive(text) ==
    /\ ndjson = noParser
    /\ ndjson' = [noParser EXCEPT !.rest = text]
    /\ called' = call("receive", NullInt, "return", << >>, << >>)

\* feed(chunk) with the next size characters of the text
Feed(size) ==
    /\ size \in 1..Len(ndjson.rest)
    /\ LET chunk == SubSeq(ndjson.rest, 1, size)
       IN  ndjson' = [feed(ndjson, chunk) EXCEPT
                         !.rest = SubSeq(@, size + 1, Len(@)),
                         !.fed = @ \o chunk,
                         !.chunks = @ + 1]
    /\ called' = call("feed", size, "return", << >>, << >>)

\* flush()
Flush ==
    /\ ndjson' = [flush(ndjson) EXCEPT !.flushes = @ + 1]
    /\ called' = call("flush", NullInt, "return", << >>, << >>)

ndjsonOnly ==
    UNCHANGED <<permVars, sessions, messages, activeSessions, usedPorts, nextId,
                create, bridge, cli, createError, received, now, projects, bus,
                arrived, sockets, wait, transcript>>

\* serialized values cut into chunks of every size
NextFraming ==
    /\ \/ \E n \in 1..MaxValues : \E vs \in [1..n -> JsonValues] : Serialize(vs)
       \/ \E size \in 1..Len(ndjson.rest) : Feed(size)
    /\ ndjsonOnly

SpecFraming == Init /\ [][NextFraming]_vars

\* any text, cut into chunks of every size, with flush() at any time
NextNdjson ==
    /\ \/ \E text \in Texts(MaxText) \ {<< >>} : Receive(text)
       \/ \E size \in 1..Len(ndjson.rest) : Feed(size)
       \/ ndjson.flushes < MaxFlushes /\ Flush
    /\ ndjsonOnly

SpecNdjson == Init /\ [][NextNdjson]_vars

(* ----------------------------- glob matcher ---------------------------- *)

MaxPrefixPattern == 5

MaxGlobPattern == 3

MaxGlobValue == 3

\* the strings of at most n characters of the set chars
RECURSIVE Strings(_, _)
Strings(chars, n) ==
    IF n = 0 THEN {<< >>}
    ELSE LET shorter == Strings(chars, n - 1)
         IN  shorter \cup {Append(s, c) : s \in shorter, c \in chars}

\* patterns with colons, and patterns with the characters of regular
\* expressions
GlobPatterns ==
    Strings({"a", "b", ":", "*"}, MaxPrefixPattern)
        \cup Strings({"a", "*", "?", ".", "|"}, MaxGlobPattern)

GlobValues == Strings({"a", "b", ":", "?", "\n"}, MaxGlobValue)

\* matchGlob does not reach new RegExp for a prefix pattern
matchGlobThrows(pattern) ==
    /\ ~(IndexFrom(pattern, ":", 1) # 0 /\ splitSuffix(pattern) = <<"*">>)
    /\ regexSyntaxError(pattern)

\* matchGlob(pattern, value) is called
MatchGlob(pattern, value) ==
    /\ lastCall' = [op |-> "matchGlob", pattern |-> pattern, value |-> value,
                    outcome |-> IF matchGlobThrows(pattern) THEN "SyntaxError"
                                ELSE IF matchGlob(pattern, value) THEN "true"
                                ELSE "false"]
    /\ UNCHANGED <<permission_rules, permission_log, nextRuleId, sessVars>>

\* one call, with any pattern and any value
NextGlob ==
    /\ lastCall.op = "none"
    /\ \E pattern \in GlobPatterns, value \in GlobValues : MatchGlob(pattern, value)

SpecGlob == Init /\ [][NextGlob]_vars

(* ---------------------- session manager: interrupt --------------------- *)

NumInterruptSessions == 1

MaxInterruptTurns == 1

\* { type: "interrupt" }
interruptFrame == [type |-> "interrupt"]

\* the status is set as sendMessage sets it
interrupted_active(st, s) == updateStatus(st, s, "active")

\* interrupt() calls neither updateStatus nor execute nor storeMessage
interrupted(st, s) == st

\* interrupt(sessionId), for any id of the table
Interrupt(s) ==
    /\ s \in DOMAIN sessions
    /\ IF s \notin DOMAIN activeSessions
       THEN ends("interrupt", s, "NotFoundError", here, << >>)
       ELSE ends("interrupt", s, "return", interrupted(here, s),
                 bridgeSend(bridge[s], interruptFrame))
    /\ createError' = noError
    /\ UNCHANGED <<messages, nextId, create, cli, received, now>>

\* one session, every operation, interrupt() at any time
NextInterrupt ==
    /\ \/ Lifecycle(NumInterruptSessions, {"default"}, {""})
       \/ Traffic({"agent-1"}, {frameFull}, MaxInterruptTurns)
       \/ \E s \in DOMAIN sessions : Interrupt(s)
    /\ UNCHANGED <<permVars, projects, bus, arrived, sockets, ndjson, wait, transcript>>

SpecInterrupt == Init /\ [][NextInterrupt]_vars

(* -------------------- session manager: connect wait -------------------- *)

NumWaitSessions == 1

MaxWaitTurns == 1

\* the timer is left armed
cleanup_timerLeft(w) == [w EXCEPT !.onExit = FALSE]

\* cleanup(): clearTimeout(timeout); cli.process.removeListener("exit", onExit)
cleanup(w) ==
    [w EXCEPT !.timeout = IF @ = "armed" THEN "cleared" ELSE @, !.onExit = FALSE]

\* resolve() or reject() is called: a promise that is settled stays as it is
settle(w, how) ==
    [w EXCEPT !.settles = @ + 1, !.promise = IF @ = "pending" THEN how ELSE @]

\* the executor of the wait's promise: setTimeout, bridge.onConnect,
\* cli.process.on("exit", onExit)
begun ==
    [promise |-> "pending", timeout |-> "armed", onExit |-> TRUE,
     connectCallback |-> TRUE, settles |-> 0, failures |-> 0]

\* create() reaches the connect wait of session s
WaitBegin(s) ==
    /\ BridgeListening(s)
    /\ wait' = with(wait, s, begun)

\* wss "connection": clientWs = ws; connectCallback, when one is installed,
\* runs cleanup() and resolve() and is dropped; when that resolves the
\* wait, create() marks the session idle and returns
WaitConnection(s) ==
    /\ bridge[s].listening
    /\ cli[s] \in {"running", "signalled"}
    /\ LET attached == [here EXCEPT !.bridge[s].clientWs = TRUE]
           notified == IF wait[s].connectCallback
                       THEN [settle(cleanup(wait[s]), "resolved") EXCEPT
                                !.connectCallback = FALSE]
                       ELSE wait[s]
       IN  /\ wait' = [wait EXCEPT ![s] = notified]
           /\ IF wait[s].promise = "pending" /\ notified.promise = "resolved"
              THEN /\ ends("create", s, "return", updateStatus(attached, s, "idle"),
                           << >>)
                   /\ create' = [create EXCEPT ![s] = "done"]
              ELSE /\ ends("connection", s, "return", attached, << >>)
                   /\ UNCHANGED create
    /\ createError' = noError
    /\ UNCHANGED <<messages, nextId, cli, received, now>>

\* the 15 s timer fires: cleanup(), reject(); when that rejects the wait,
\* the catch block of create() runs
WaitTimer(s, stderr) ==
    /\ s \in DOMAIN wait
    /\ wait[s].timeout = "armed"
    /\ LET fired == settle(cleanup([wait[s] EXCEPT !.timeout = "fired"]), "rejected")
       IN  IF wait[s].promise = "pending"
           THEN /\ wait' = [wait EXCEPT ![s] = [fired EXCEPT !.failures = @ + 1]]
                /\ ends("create", s, "timeout",
                        connectFailed(here, s, sessions[s].ws_port, stderr,
                                      "CLI failed to connect to bridge within 15s"),
                        << >>)
                /\ cli' = signalled(s)
                /\ create' = [create EXCEPT ![s] = "failed"]
                /\ createError' = failed("timeout", s, sessions[s].ws_port)
           ELSE /\ wait' = [wait EXCEPT ![s] = fired]
                /\ called' = call("timer", s, "return", << >>, << >>)
                /\ createError' = noError
                /\ UNCHANGED <<sessions, activeSessions, usedPorts, bridge, cli, create>>
    /\ UNCHANGED <<messages, nextId, received, now>>

\* the subprocess exits: the launcher's exit callback runs
\* handleProcessExit, then onExit, when it is still a listener, runs
\* cleanup() and reject(); when that rejects the wait, the catch block runs
WaitExit(s, stderr) ==
    /\ cli[s] \in {"running", "signalled"}
    /\ cli' = [cli EXCEPT ![s] = "exited"]
    /\ LET port == sessions[s].ws_port
           exited == handleProcessExit(here, s, port, stderr)
           heard == IF wait[s].onExit THEN settle(cleanup(wait[s]), "rejected")
                    ELSE wait[s]
       IN  IF wait[s].promise = "pending" /\ heard.promise = "rejected"
           THEN /\ wait' = [wait EXCEPT ![s] = [heard EXCEPT !.failures = @ + 1]]
                /\ ends("exit", s, "create: exit",
                        connectFailed(exited, s, port, stderr,
                                      "CLI process exited before connecting to bridge"),
                        << >>)
                /\ create' = [create EXCEPT ![s] = "failed"]
                /\ createError' = failed("exit", s, port)
           ELSE /\ wait' = [wait EXCEPT ![s] = heard]
                /\ ends("exit", s, "return", exited, << >>)
                /\ createError' = noError
                /\ UNCHANGED create
    /\ UNCHANGED <<messages, nextId, received, now>>

\* one create() call and what follows it, the three events of its connect
\* wait in every order
NextWait ==
    \/ /\ \/ nextId <= NumWaitSessions /\ CreateCall("default")
          \/ \E s \in DOMAIN sessions : SpawnFailed(s)
          \/ \E s \in DOMAIN sessions : Kill(s)
          \/ \E s \in DOMAIN sessions : ClientClose(s)
          \/ \E s \in DOMAIN sessions : messages[s].user < MaxWaitTurns /\ SendMessage(s)
          \/ \E s \in DOMAIN sessions : OnSystemInit(s, "agent-1")
       /\ UNCHANGED <<permVars, projects, bus, arrived, sockets, ndjson, wait, transcript>>
    \/ /\ \/ \E s \in DOMAIN sessions : WaitBegin(s)
          \/ \E s \in DOMAIN sessions : WaitConnection(s)
          \/ \E s \in DOMAIN sessions, stderr \in Stderrs : WaitTimer(s, stderr)
          \/ \E s \in DOMAIN sessions, stderr \in Stderrs : WaitExit(s, stderr)
       /\ UNCHANGED <<permVars, projects, bus, arrived, sockets, ndjson, transcript>>

SpecWait == Init /\ [][NextWait]_vars

(* --------------------------- router: dispatch -------------------------- *)

\* MessageRouterCallbacks: every callback is optional
Callbacks ==
    {"onSystemInit", "onAssistant", "onStreamEvent", "onResult", "onPermissionRequest"}

\* inbound messages by type and subtype (request.subtype for a
\* control_request); "" is a message without the field, "user" and "" are
\* types the switch does not name
RoutedMessages ==
    [type : {"system", "assistant", "stream_event", "result", "control_request",
             "tool_progress", "keep_alive", "user", ""},
     subtype : {"init", "can_use_tool", "status", ""}]

\* every message falls to the default branch
eventOf_default(message) == <<"session.message">>

\* the types of the events routeMessage passes to emitEvent for a message
eventOf(message) ==
    CASE message.type \in {"system", "assistant"} -> <<"session.message">>
      [] message.type \in {"stream_event", "tool_progress"} -> <<"stream.event">>
      [] message.type = "result" -> <<"session.result">>
      [] message.type = "control_request" ->
             IF message.subtype = "can_use_tool" THEN << >> ELSE <<"session.message">>
      [] message.type = "keep_alive" -> << >>
      [] OTHER -> <<"session.message">>

\* the callbacks routeMessage calls for a message, callbacks.onX?.(...)
callbackOf(message, callbacks) ==
    LET optional(cb) == IF cb \in callbacks THEN <<cb>> ELSE << >>
    IN  CASE message.type = "system" ->
                 IF message.subtype = "init" THEN optional("onSystemInit") ELSE << >>
          [] message.type = "assistant" -> optional("onAssistant")
          [] message.type = "stream_event" -> optional("onStreamEvent")
          [] message.type = "result" -> optional("onResult")
          [] message.type = "control_request" ->
                 IF message.subtype = "can_use_tool" THEN optional("onPermissionRequest")
                 ELSE IF message.subtype = "init" THEN optional("onSystemInit")
                 ELSE << >>
          [] OTHER -> << >>

\* routeMessage(conduitSessionId, message, callbacks)
RouteMessage(message, callbacks) ==
    /\ called' = [op |-> "routeMessage", session |-> NullInt, outcome |-> "return",
                  events |-> eventOf(message), sent |-> << >>,
                  invoked |-> callbackOf(message, callbacks),
                  message |-> message, callbacks |-> callbacks]
    /\ UNCHANGED <<permVars, sessions, messages, activeSessions, usedPorts, nextId,
                   create, bridge, cli, createError, received, now, projects, bus,
                   arrived, sockets, ndjson, wait, transcript>>

NextDispatch ==
    \E message \in RoutedMessages, callbacks \in SUBSET Callbacks :
        RouteMessage(message, callbacks)

SpecDispatch == Init /\ [][NextDispatch]_vars

(* ------------------------ session manager: startup --------------------- *)

\* SELECT * FROM sessions WHERE status != 'closed'
orphaned(tbl) == {s \in DOMAIN tbl : tbl[s].status # "closed"}

\* the row marked closed, as the comment in the code says
cleanupRow_closed(row, t) == [row EXCEPT !.status = "closed", !.closed_at = t]

\* UPDATE sessions SET status = 'error', closed_at = $now WHERE id = $id
cleanupRow(row, t) == [row EXCEPT !.status = "error", !.closed_at = t]

\* process.kill(pid, "SIGTERM") in try/catch: a subprocess that still runs
\* is signalled, ESRCH for one that is gone is swallowed
orphanKilled(row, process) ==
    IF row.cli_pid # NullInt /\ process = "running" THEN "signalled" ELSE process

\* cleanupOrphanedSessions(), run when the server starts
CleanupOrphanedSessions ==
    /\ sessions' = [s \in DOMAIN sessions |->
                       IF s \in orphaned(sessions)
                       THEN cleanupRow(sessions[s], now)
                       ELSE sessions[s]]
    /\ cli' = [s \in DOMAIN cli |->
                  IF s \in orphaned(sessions)
                  THEN orphanKilled(sessions[s], cli[s])
                  ELSE cli[s]]
    /\ called' = call("cleanupOrphanedSessions", NullInt, "return", << >>, << >>)
    /\ UNCHANGED <<messages, activeSessions, usedPorts, nextId, create, bridge,
                   createError, received, now>>

\* time passes
Tick ==
    /\ now' = now + 1
    /\ UNCHANGED <<sessions, messages, activeSessions, usedPorts, nextId, create,
                   bridge, cli, createError, received, called>>

SessionStatuses == {"starting", "idle", "active", "compacting", "closed", "error"}

\* the rows a previous run of the server can have left, each with the
\* state of its subprocess: never launched, still running, gone
StoredRows ==
    {[row |-> [newSession(wsPortRangeStart) EXCEPT
                   !.status = status,
                   !.cli_pid = IF process = "none" THEN NullInt ELSE 1,
                   !.closed_at = closedAt,
                   !.error_message = IF status = "error" THEN "spawn ENOENT" ELSE ""],
      process |-> process] :
        status \in SessionStatuses, process \in {"none", "running", "exited"},
        closedAt \in {NullInt, 1}}

\* the server starts on a store of n rows: nothing is tracked in memory
InitStore ==
    /\ permission_rules = << >>
    /\ permission_log = << >>
    /\ nextRuleId = 1
    /\ lastCall = [op |-> "none", outcome |-> "return"]
    /\ \E n \in 0..MaxStore : \E stored \in [1..n -> StoredRows] :
           /\ sessions = [s \in 1..n |-> stored[s].row]
           /\ cli = [s \in 1..n |-> stored[s].process]
           /\ messages = [s \in 1..n |-> noMessages]
           /\ create = [s \in 1..n |-> "none"]
           /\ bridge = [s \in 1..n |-> noBridge]
           /\ received = [s \in 1..n |-> noneReceived]
           /\ nextId = n + 1
    /\ activeSessions = << >>
    /\ usedPorts = {}
    /\ createError = noError
    /\ called = call("none", NullInt, "return", << >>, << >>)
    /\ now = 2
    /\ projects = Projects
    /\ bus = noBus
    /\ arrived = << >>
    /\ sockets = noSockets
    /\ ndjson = noParser
    /\ wait = noWait
    /\ transcript = << >>

NextCleanup ==
    /\ \/ CleanupOrphanedSessions
       \/ now < MaxNow /\ Tick
    /\ UNCHANGED <<permVars, projects, bus, arrived, sockets, ndjson, wait, transcript>>

SpecCleanup == InitStore /\ [][NextCleanup]_vars

(* --------------------- session manager: transcript --------------------- *)

NumTranscriptSessions == 1

MaxEntries == 3

\* the lines one ws message may carry
TranscriptBatches ==
    LET Frames == {frameInit, frameAssistant, frameStream, frameKeepAlive, frameFull}
    IN  {<<f>> : f \in Frames} \cup {<<f, g>> : f, g \in {frameAssistant, frameFull}}

\* a row put into rows that are in ORDER BY timestamp ASC; rows of one
\* timestamp stay in the order of their rowids
RECURSIVE inserted(_, _)
inserted(rows, row) ==
    IF rows # << >> /\ rows[Len(rows)].timestamp > row.timestamp
    THEN Append(inserted(SubSeq(rows, 1, Len(rows) - 1), row), rows[Len(rows)])
    ELSE Append(rows, row)

\* getMessages(sessionId): SELECT ... ORDER BY timestamp ASC
RECURSIVE getMessages(_)
getMessages(rows) ==
    IF rows = << >> THEN << >>
    ELSE inserted(getMessages(SubSeq(rows, 1, Len(rows) - 1)), rows[Len(rows)])

\* sendMessage(sessionId, content): the user frame is sent and stored
SendStored(s) ==
    /\ SendMessage(s)
    /\ LET sent == called'.outcome = "return"
       IN  /\ transcript' =
                  IF sent
                  THEN [transcript EXCEPT ![s] = storeMessage(@, "outbound", "user")]
                  ELSE transcript
           /\ arrived' =
                  IF called'.sent # << >>
                  THEN [arrived EXCEPT ![s] = Append(@, [type |-> "user", emitted |-> << >>])]
                  ELSE arrived
    /\ UNCHANGED <<permVars, projects, bus, sockets, ndjson, wait>>

\* one session, the frames of its agent and the messages sent to it; the
\* clock advances between two of them or not
NextTranscript ==
    \/ nextId <= NumTranscriptSessions /\ CreateLogged
    \/ /\ \/ \E s \in DOMAIN sessions : BridgeListening(s)
          \/ \E s \in DOMAIN sessions : ClientConnect(s)
       /\ UNCHANGED <<permVars, projects, bus, arrived, sockets, ndjson, wait, transcript>>
    \/ /\ now <= arrivals(DOMAIN arrived)
       /\ Tick
       /\ UNCHANGED <<permVars, projects, bus, arrived, sockets, ndjson, wait, transcript>>
    \/ \E s \in DOMAIN sessions, frames \in TranscriptBatches :
          arrivals(DOMAIN arrived) + Len(frames) <= MaxEntries /\ OnFrames(s, frames)
    \/ \E s \in DOMAIN sessions : arrivals(DOMAIN arrived) < MaxEntries /\ SendStored(s)

SpecTranscript == Init /\ [][NextTranscript]_vars

(* ---------------------------- session claims -------------------------- *)

\* the sessions whose persisted status is neither closed nor error
nonTerminal == {s \in DOMAIN sessions : ~isTerminal(sessions[s].status)}

\* C4: every session's ws_port lies in the configured range, and no two
\* sessions that are both not terminal hold the same ws_port.
C4_PortExclusivity ==
    \A s \in DOMAIN sessions :
        /\ sessions[s].ws_port \in Ports
        /\ \A o \in nonTerminal \ {s} :
               s \in nonTerminal => sessions[o].ws_port # sessions[s].ws_port

\* C5: the allocated ports are within the configured range and are exactly
\* the ws_port values of the sessions that are not terminal.
C5_PortPoolClosure ==
    /\ usedPorts \subseteq Ports
    /\ usedPorts = {sessions[s].ws_port : s \in nonTerminal}

\* C6: when create() has just failed, whatever the failure, the port it
\* allocated is unallocated again, its bridge is closed, its session is not
\* in the active table and its row is not left in a non-terminal status.
C6_CreateFailureCleansUp ==
    createError.kind # "none" =>
        /\ createError.port # NullInt => createError.port \notin usedPorts
        /\ createError.session # NullInt =>
               /\ ~bridge[createError.session].listening
               /\ createError.session \notin DOMAIN activeSessions
               /\ createError.session \notin nonTerminal

\* C7: the number of entries of the active-session table never exceeds
\* config.maxSessionsGlobal, also with several create() calls in flight.
C7_GlobalSessionCap ==
    Cardinality(DOMAIN activeSessions) <= maxSessionsGlobal

\* C8: once a session's persisted status is error or closed, no step
\* changes it to another value.
C8_TerminalAbsorbing ==
    [][\A s \in DOMAIN sessions :
          isTerminal(sessions[s].status) =>
              sessions'[s].status = sessions[s].status]_vars

\* C9: closed_at is set if and only if the session's status is closed or
\* error.
C9_ClosedAtIffTerminal ==
    \A s \in DOMAIN sessions :
        sessions[s].closed_at # NullInt <=> isTerminal(sessions[s].status)

\* the three totals of the row are those of the frame
totalsOf(row, frame) ==
    /\ row.total_cost_usd = orZero(frame, "total_cost_usd")
    /\ row.total_input_tokens = usageOrZero(frame, "input_tokens")
    /\ row.total_output_tokens = usageOrZero(frame, "output_tokens")

\* C10: handling a result frame sets the three totals to the values of that
\* frame, adds exactly 1 to num_turns and sets status idle; after n result
\* frames the totals are those of the last frame and num_turns is n.
C10_ResultSet ==
    /\ [](\A s \in DOMAIN sessions :
             /\ sessions[s].num_turns = received[s].n
             /\ received[s].n > 0 => totalsOf(sessions[s], received[s].last))
    /\ [][\A s \in DOMAIN sessions :
             received'[s] # received[s] =>
                 /\ totalsOf(sessions'[s], received'[s].last)
                 /\ sessions'[s].num_turns = sessions[s].num_turns + 1
                 /\ sessions'[s].status = "idle"]_vars

\* a second result frame, without usage, has replaced totals that an
\* earlier frame had set
C10_Witness ==
    \E s \in DOMAIN sessions :
        /\ received[s].n = 2
        /\ received[s].last = frameNoUsage
        /\ sessions[s].num_turns = 2
        /\ sessions[s].total_cost_usd = 7
        /\ sessions[s].total_input_tokens = 0
        /\ sessions[s].status = "idle"

\* the session whose create() the connect timer has failed and whose
\* subprocess, signalled, has not exited yet
timedOut(t) == create[t] = "failed" /\ cli[t] = "signalled"

\* C11: when the connect timer fires create() rejects, the row has status
\* error with closed_at set, the session is out of the active table, the
\* bridge is closed, the subprocess is signalled and the port is free; a
\* later session that obtains that port keeps it for as long as it lives.
C11_ConnectTimeout ==
    /\ [](called.op = "create" /\ called.outcome = "timeout" =>
            LET t == called.session
            IN  /\ sessions[t].status = "error"
                /\ sessions[t].closed_at # NullInt
                /\ t \notin DOMAIN activeSessions
                /\ ~bridge[t].listening
                /\ cli[t] = "signalled"
                /\ sessions[t].ws_port \notin usedPorts)
    /\ [][\A t \in DOMAIN sessions : \A s \in nonTerminal :
             (/\ timedOut(t)
              /\ s > t
              /\ sessions[s].ws_port = sessions[t].ws_port
              /\ sessions[s].ws_port \in usedPorts
              /\ s \in nonTerminal')
             => sessions[s].ws_port \in usedPorts']_vars

\* the handler that just ran emitted a session.error event with this reason
errorEmitted(c, s, reason) ==
    \E i \in DOMAIN c.events :
        c.events[i] = [type |-> "session.error", session_id |-> s, data |-> reason]

\* C12: when the subprocess exits before the agent has connected, or while
\* the status is active, the session ends in status error, error_message
\* is the captured stderr, and a session.error event is emitted with reason
\* cli_failed_to_connect (before connect) or unexpected_exit (active).
C12_ExitIsError ==
    [][\A s \in DOMAIN sessions : \A stderr \in Stderrs :
          (ProcessExit(s, stderr)
              /\ (create[s] # "done" \/ sessions[s].status = "active"))
          => /\ sessions'[s].status = "error"
             /\ stderr # "" => sessions'[s].error_message = stderr
             /\ errorEmitted(called', s,
                    IF sessions[s].status = "active" THEN "unexpected_exit"
                    ELSE "cli_failed_to_connect")]_vars

\* the handler that just ran emitted a session.error event for s
anyErrorEmitted(c, s) ==
    \E i \in DOMAIN c.events :
        c.events[i].type = "session.error" /\ c.events[i].session_id = s

\* C13: when the subprocess of a session exits and kill() was never called
\* for it, whatever its non-terminal status and whatever stderr holds, the
\* session is moved to status error and a session.error event is emitted.
C13_CrashIsVisible ==
    [][\A s \in DOMAIN sessions : \A stderr \in Stderrs :
          (ProcessExit(s, stderr)
              /\ s \in nonTerminal
              /\ sessions[s].closed_at = NullInt)
          => /\ sessions'[s].status = "error"
             /\ anyErrorEmitted(called', s)]_vars

\* the session.closed events the handler that just ran emitted for s
closedEmitted(c, s) ==
    {i \in DOMAIN c.events :
        c.events[i] = [type |-> "session.closed", session_id |-> s, data |-> ""]}

\* C14: kill(sid) on a session of the active table signals the subprocess,
\* closes the bridge, releases the port, removes the session from the active
\* table, persists status closed with closed_at and emits exactly one
\* session.closed event, also while create() still waits for the connect.
C14_KillClosesSession ==
    [][\A s \in DOMAIN activeSessions :
          Kill(s)
          => /\ cli[s] = "running" => cli'[s] = "signalled"
             /\ ~bridge'[s].listening
             /\ sessions[s].ws_port \notin usedPorts'
             /\ s \notin DOMAIN activeSessions'
             /\ sessions'[s].status = "closed"
             /\ sessions'[s].closed_at # NullInt
             /\ Cardinality(closedEmitted(called', s)) = 1
             /\ \A i \in DOMAIN called'.events :
                    called'.events[i].type = "session.closed"
                        => i \in closedEmitted(called', s)]_vars

\* kill() has just ended a session whose create() still waits for the
\* connect
C14_Witness ==
    \E s \in DOMAIN sessions :
        /\ called.op = "kill" /\ called.session = s
        /\ create[s] = "connect"
        /\ cli[s] = "signalled"
        /\ sessions[s].status = "closed"
        /\ s \notin DOMAIN activeSessions

\* C15: sendMessage without an entry in the active table fails with
\* NotFoundError, with an entry but no attached client with ConflictError,
\* and then sends no frame, leaves the status and writes no transcript entry;
\* otherwise it sends exactly one user frame, sets status active and writes
\* one outbound transcript entry.
C15_SendMessage ==
    [][\A s \in DOMAIN sessions :
          SendMessage(s)
          => IF s \in DOMAIN activeSessions /\ bridge[s].clientWs
             THEN /\ called'.outcome = "return"
                  /\ called'.sent = <<userFrame>>
                  /\ sessions'[s].status = "active"
                  /\ messages' = [messages EXCEPT ![s].user = @ + 1]
             ELSE /\ called'.outcome =
                         IF s \in DOMAIN activeSessions THEN "ConflictError"
                         ELSE "NotFoundError"
                  /\ called'.sent = << >>
                  /\ sessions' = sessions
                  /\ messages' = messages]_vars

\* sendMessage has just failed on a session whose agent is not attached
C15_Witness ==
    \E s \in DOMAIN activeSessions :
        /\ called = call("sendMessage", s, "ConflictError", << >>, << >>)
        /\ ~bridge[s].clientWs
        /\ sessions[s].status = "starting"
        /\ messages[s].user = 0

C17_CleanupIdempotent ==
    [][(called.op = "cleanupOrphanedSessions" /\ CleanupOrphanedSessions)
          => sessions' = sessions]_vars

(* ------------------------ permission claims, II ------------------------ *)

\* C18: an updateRule call with payload keys K sets exactly the columns in
\* K \cap {tool_name, rule_content, behavior, priority} to the payload's
\* values; id and project_id of the rule, and every other rule, are
\* unchanged, and a payload with no allowed key changes nothing.
C18_UpdateFilter ==
    [][\A id \in DOMAIN permission_rules : \A updates \in UpdateInputs :
          updateRule(id, updates)
          => /\ DOMAIN permission_rules' = DOMAIN permission_rules
             /\ \A k \in ALLOWED_COLUMNS :
                    permission_rules'[id][k] =
                        IF k \in updates.K THEN updates[k]
                        ELSE permission_rules[id][k]
             /\ permission_rules'[id].id = permission_rules[id].id
             /\ permission_rules'[id].project_id = permission_rules[id].project_id
             /\ \A o \in DOMAIN permission_rules \ {id} :
                    permission_rules'[o] = permission_rules[o]
             /\ updates.K \cap ALLOWED_COLUMNS = {}
                    => permission_rules' = permission_rules]_vars

\* an update with the keys id and priority has changed the priority of a
\* rule and nothing else of it
C18_Witness ==
    /\ lastCall.op = "updateRule"
    /\ \E id \in DOMAIN permission_rules :
           /\ permission_rules[id].id = id
           /\ permission_rules[id].priority = 1
           /\ permission_rules[id].behavior = "allow"
           /\ permission_rules[id].rule_content = s_empty

\* C19: evaluate always returns a decision; when its audit row cannot be
\* written it does not throw but returns the auto_default allow.
C19_EvaluateTotal ==
    lastCall.op = "evaluate"
    => /\ lastCall.outcome = "return"
       /\ lastCall.behavior \in {"allow", "deny"}
       /\ lastCall.session_id \notin LoggedSessions => lastCall.behavior = "allow"

\* C20: every can_use_tool control_request of an attached agent is answered
\* by exactly one control_response on the same bridge, with the request's
\* request_id and the behavior the engine decides, in arrival order.
C20_RequestAnswered ==
    [][\A s \in DOMAIN bridge : \A reqs \in ControlRequests :
          OnPermissionRequest(s, reqs)
          => /\ Len(called'.sent) = Len(reqs)
             /\ \A i \in 1..Len(reqs) :
                    /\ called'.sent[i].type = "control_response"
                    /\ called'.sent[i].request_id = reqs[i].request_id
                    /\ \E d \in evaluate(permission_rules, "P", reqs[i].tool_name,
                                          reqs[i].tool_input) :
                           called'.sent[i].behavior = d.behavior]_vars

(* ------------------------ session claims, II --------------------------- *)

\* C21: a create() call that passes the cap check allocates the lowest port
\* of the range that is not allocated and marks it allocated; when every
\* port is allocated it fails with a ConflictError and leaves the allocated
\* set, the active table and the session store unchanged.
C21_LowestFreePort ==
    [][\A mode \in GivenModes :
          (CreateCall(mode) /\ Cardinality(DOMAIN activeSessions) < maxSessionsGlobal)
          => IF Ports \ usedPorts = {}
             THEN /\ called'.outcome = "ConflictError"
                  /\ UNCHANGED <<usedPorts, activeSessions, sessions>>
             ELSE \E p \in Ports \ usedPorts :
                     /\ \A q \in Ports \ usedPorts : p <= q
                     /\ usedPorts' = usedPorts \cup {p}
                     /\ called'.outcome = "await"
                            => sessions'[called'.session].ws_port = p]_vars

\* a create() call has just found every port of the range allocated
C21_Witness ==
    /\ createError.kind = "ConflictError: ports"
    /\ usedPorts = Ports

\* C22: once a non-empty agent-assigned session id has been captured, no
\* later init frame overwrites it, in the active table or in the store,
\* whatever session_id the later frames carry.
C22_AgentIdKept ==
    [][\A s \in DOMAIN sessions :
          /\ sessions[s].session_id # ""
                 => sessions'[s].session_id = sessions[s].session_id
          /\ (/\ s \in DOMAIN activeSessions
              /\ activeSessions[s].cliSessionId # ""
              /\ s \in DOMAIN activeSessions')
                 => activeSessions'[s].cliSessionId = activeSessions[s].cliSessionId]_vars

\* an init frame with the id agent-2 has just been handled for a session
\* that had captured agent-1, and agent-1 is still its id
C22_Witness ==
    /\ called.op = "system"
    /\ called.events[Len(called.events)].data = "agent-2"
    /\ sessions[called.session].session_id = "agent-1"
    /\ called.session \in DOMAIN activeSessions
    /\ activeSessions[called.session].cliSessionId = "agent-1"

\* C23: a create() call whose permission mode is not one of acceptEdits,
\* bypassPermissions, default, delegate, dontAsk, plan is rejected with a
\* ValidationError, with no row inserted and no subprocess spawned.
C23_InvalidModeRejected ==
    [][\A mode \in GivenModes \ VALID_PERMISSION_MODES :
          (/\ CreateCall(mode)
           /\ Cardinality(DOMAIN activeSessions) < maxSessionsGlobal
           /\ Ports \ usedPorts # {})
          => /\ called'.outcome = "ValidationError"
             /\ UNCHANGED <<sessions, cli>>]_vars

(* ---------------------------- event bus claims ------------------------- *)

\* the event the next emit carries
nextEvent(sessionId) == [session_id |-> sessionId, n |-> Len(bus.emitted) + 1]

\* the handlers that are subscribed: neither unsubscribed nor cleared
subscribed == {h \in 1..Len(bus.handlers) : ~bus.handlers[h].cancelled}

\* C24: on every emit, a subscriber with a non-empty sessionId receives the
\* event if and only if the event's session_id equals it, a subscriber
\* without sessionId receives it, and every subscriber has received its
\* events in the order of the emit calls.
C24_FilterAndOrder ==
    [][\A sessionId \in BusSessionIds :
          EmitEvent(sessionId)
          => \A h \in 1..Len(bus.handlers) :
                LET old == bus.handlers[h].received
                    new == bus'.handlers[h].received
                    wanted == bus.handlers[h].sessionId \in {"", sessionId}
                IN  /\ (h \in subscribed /\ wanted) => new = Append(old, nextEvent(sessionId))
                    /\ ~wanted => new = old
                    /\ \A i, j \in 1..Len(new) : i < j => new[i].n < new[j].n]_vars

\* after an event of session B and then one of session A, a subscriber
\* filtering on A has received the second only, and a subscriber without
\* filter has received both, in that order
C24_Witness ==
    /\ Len(bus.emitted) = 2
    /\ bus.emitted[1].session_id = "B" /\ bus.emitted[2].session_id = "A"
    /\ \E h, g \in 1..Len(bus.handlers) :
           /\ bus.handlers[h].sessionId = "A"
           /\ bus.handlers[h].received = <<bus.emitted[2]>>
           /\ bus.handlers[g].sessionId = ""
           /\ bus.handlers[g].received = bus.emitted

\* C25: when a subscriber's handler throws during emit, emit itself does
\* not throw and every other matching subscriber still receives the event,
\* wherever the throwing handler stands among the subscribers.
C25_Isolation ==
    [][\A sessionId \in BusSessionIds :
          (/\ EmitEvent(sessionId)
           /\ \E h \in subscribed :
                  bus.handlers[h].throws /\ bus.handlers[h].sessionId \in {"", sessionId})
          => /\ bus'.outcome = "return"
             /\ \A g \in subscribed :
                    bus.handlers[g].sessionId \in {"", sessionId}
                    => bus'.handlers[g].received =
                           Append(bus.handlers[g].received, nextEvent(sessionId))]_vars

\* emit has returned after the first subscriber threw, and the second
\* subscriber has received the event
C25_Witness ==
    /\ called.op = "emit" /\ called.outcome = "return"
    /\ Len(bus.subscriptions) = 2
    /\ bus.handlers[bus.subscriptions[1].h].throws
    /\ ~bus.handlers[bus.subscriptions[2].h].throws
    /\ \A i \in 1..2 :
           LET got == bus.handlers[bus.subscriptions[i].h].received
           IN  got # << >> /\ got[Len(got)] = bus.emitted[Len(bus.emitted)]

\* C26: subscriberCount() is the number of subscriptions added and neither
\* unsubscribed nor cleared; a handler has received no event emitted after
\* its unsubscribe function was called or after clear; a further call of an
\* unsubscribe function changes nothing.
C26_SubscriptionAccounting ==
    /\ [](/\ subscriberCount(bus) = Cardinality(subscribed)
          /\ \A h \in 1..Len(bus.handlers) :
                 bus.handlers[h].cancelled
                 => \A i \in 1..Len(bus.handlers[h].received) :
                        bus.handlers[h].received[i].n <= bus.handlers[h].to)
    /\ [][\A h \in 1..Len(bus.handlers) :
            (Unsubscribe(h) /\ bus.handlers[h].cancelled)
            => /\ bus'.subscriptions = bus.subscriptions
               /\ bus'.handlers = bus.handlers]_vars

\* the unsubscribe function of a handler has been called again, after a
\* later emission that the handler did not receive, while another
\* subscription is counted
C26_Witness ==
    /\ called.op = "unsubscribe"
    /\ bus.handlers[called.session].cancelled
    /\ bus.handlers[called.session].to < Len(bus.emitted)
    /\ bus.handlers[called.session].received # << >>
    /\ subscriberCount(bus) = 1

(* --------------------------- bridge claims ----------------------------- *)

\* the frame of session s for which emission n was made
frameOf(s, n) ==
    CHOOSE k \in 1..Len(arrived[s]) :
        \E i \in 1..Len(arrived[s][k].emitted) : arrived[s][k].emitted[i] = n

\* C27: the frames of one session's agent are routed in arrival order and
\* the emissions made for them are in that order, so every subscriber of
\* the session's events has received them in frame-arrival order.
C27_FrameOrder ==
    \A s \in DOMAIN arrived :
        /\ \A k, l \in 1..Len(arrived[s]) :
               k < l => \A i \in 1..Len(arrived[s][k].emitted) :
                           \A j \in 1..Len(arrived[s][l].emitted) :
                              arrived[s][k].emitted[i] < arrived[s][l].emitted[j]
        /\ \A h \in 1..Len(bus.handlers) :
               LET got == bus.handlers[h].received
               IN  \A i, j \in 1..Len(got) :
                      (i < j /\ got[i].session_id = busId(s) /\ got[j].session_id = busId(s))
                      => frameOf(s, got[i].n) <= frameOf(s, got[j].n)

\* a subscriber filtering on the session has received the events of three
\* frames, two of which arrived in one message
C27_Witness ==
    \E s \in DOMAIN arrived :
        /\ Len(arrived[s]) = 3
        /\ \A k \in 1..3 : arrived[s][k].emitted # << >>
        /\ called.op = "message" /\ Len(called.events) > 2
        /\ \E h \in 1..Len(bus.handlers) :
               /\ bus.handlers[h].sessionId = busId(s)
               /\ Len(bus.handlers[h].received) = Len(bus.emitted)

\* the sockets of the bridge that are open
openSockets == {w \in 1..Len(sockets.ws) : sockets.ws[w].readyState = "OPEN"}

\* C28: at most one client is attached to the bridge at a time; when a
\* client connects while one is attached, the older connection is closed
\* with the normal closure code 1000 and the new one becomes the attached
\* client; isConnected() is true exactly when the current socket is open,
\* whatever happens to older sockets.
C28_SingleClient ==
    /\ [](/\ Cardinality(openSockets) <= 1
          /\ openSockets \subseteq {sockets.clientWs}
          /\ isConnected(sockets) <=> openSockets # {})
    /\ [][(Connection /\ isConnected(sockets))
           => /\ sockets'.ws[sockets.clientWs] = [readyState |-> "CLOSING", code |-> 1000]
              /\ sockets'.clientWs = Len(sockets.ws) + 1
              /\ openSockets' = {sockets'.clientWs}]_vars

\* the socket that a second client replaced has just closed, and the
\* second client is still the attached one
C28_Witness ==
    /\ called.op = "close"
    /\ Len(sockets.ws) >= 2
    /\ called.session # sockets.clientWs
    /\ sockets.ws[called.session].code = 1000
    /\ isConnected(sockets)

(* ---------------------------- ndjson claims --------------------------- *)

\* C29: however the serialization of a sequence of JSON values is cut into
\* chunks, feeding the chunks in order calls the callback with the same
\* values in the same order as feeding the whole serialization at once.
C29_ChunkInsensitive ==
    LET whole == feed(noParser, ndjson.fed \o ndjson.rest)
    IN  feed(ndjson, ndjson.rest).delivered = whole.delivered

\* two values have been fed one character at a time
C29_Witness ==
    /\ Len(ndjson.values) = 2
    /\ ndjson.values[1] # ndjson.values[2]
    /\ ndjson.rest = << >>
    /\ ndjson.chunks = Len(ndjson.fed)
    /\ Len(ndjson.delivered) = 2

\* the lines of a text that are ended by a line feed, read character by
\* character; line is the line read so far
RECURSIVE completeLines(_, _)
completeLines(text, line) ==
    IF text = << >> THEN << >>
    ELSE IF Head(text) = LF THEN <<line>> \o completeLines(Tail(text), << >>)
    ELSE completeLines(Tail(text), Append(line, Head(text)))

\* the values of the lines that are JSON texts, in order
RECURSIVE valuesOf(_)
valuesOf(lines) ==
    IF lines = << >> THEN << >>
    ELSE LET v == jsonParse(Head(lines))
         IN  (IF v.ok THEN <<jsonValue(v.depth, v.n)>> ELSE << >>)
             \o valuesOf(Tail(lines))

\* C30: the callback is called for exactly the complete lines that are
\* JSON texts, in order, so that a malformed, empty or whitespace-only line
\* delivers nothing and does not disturb the lines around it; flush()
\* delivers the value left in the buffer once, and a second flush, or a
\* flush of an empty or whitespace-only buffer, delivers nothing.
C30_MalformedAndFlush ==
    /\ [](ndjson.flushes = 0
             => ndjson.delivered = valuesOf(completeLines(ndjson.fed, << >>)))
    /\ [][Flush
           => LET v == jsonParse(ndjson.buffer)
              IN  /\ ndjson'.delivered =
                         IF v.ok THEN Append(ndjson.delivered, jsonValue(v.depth, v.n))
                         ELSE ndjson.delivered
                  /\ (called.op = "flush" \/ trim(ndjson.buffer) = << >>)
                         => ndjson'.delivered = ndjson.delivered]_vars

(* ----------------------------- glob claims ----------------------------- *)

\* a literal glob: '*' stands for any run of characters, every other
\* character of the pattern for itself, and the whole value is matched
RECURSIVE literalGlob(_, _, _, _)
literalGlob(pattern, i, value, j) ==
    IF i > Len(pattern) THEN j > Len(value)
    ELSE IF pattern[i] = "*"
    THEN \/ literalGlob(pattern, i + 1, value, j)
         \/ j <= Len(value) /\ literalGlob(pattern, i, value, j + 1)
    ELSE /\ j <= Len(value)
         /\ value[j] = pattern[i]
         /\ literalGlob(pattern, i + 1, value, j + 1)

outcomeOf(b) == IF b THEN "true" ELSE "false"

\* C31: a pattern with a ':' is a prefix pattern exactly when what follows
\* its first ':' is exactly "*", and then it matches the values that start
\* with the part before the colon; every other pattern with a ':' is
\* matched as an ordinary glob (the regular expression made of it).
C31_PrefixColon ==
    (lastCall.op = "matchGlob" /\ IndexFrom(lastCall.pattern, ":", 1) # 0)
        => LET pattern == lastCall.pattern
               colon == IndexFrom(pattern, ":", 1)
           IN  IF SubSeq(pattern, colon + 1, Len(pattern)) = <<"*">>
               THEN lastCall.outcome =
                        outcomeOf(startsWith(lastCall.value, SubSeq(pattern, 1, colon - 1)))
               ELSE lastCall.outcome =
                        outcomeOf(regexTest(pattern, 1, lastCall.value, 1))

\* C32: for a pattern without ':', matchGlob is the literal glob: a match
\* of the whole value in which '*' is any run of characters and every other
\* character of the pattern matches only itself.
C32_LiteralGlob ==
    (lastCall.op = "matchGlob" /\ IndexFrom(lastCall.pattern, ":", 1) = 0)
        => lastCall.outcome =
               outcomeOf(literalGlob(lastCall.pattern, 1, lastCall.value, 1))

(* ------------------------- rule deletion claims ------------------------ *)

\* C33: after deleteRule(id) the rule is no longer in the rule table, so it
\* is not listed and no later evaluate call finds it, whether or not rows
\* of the permission log reference it; the log rows are retained.
C33_DeletedRuleGone ==
    [][\A id \in 1..MaxRulesAudit :
          deleteRule(id) => /\ id \notin DOMAIN permission_rules'
                            /\ permission_log' = permission_log]_vars

\* C34: a request that no project or global rule matches is not allowed by
\* default: the decision evaluate gives for it is deny (after the permission
\* timeout, when nobody answered).
C34_NoMatchDenied ==
    (evaluated /\ \A g \in 1..4 : groupOrder[g] = {})
        => lastCall.behavior = "deny"

(* --------------------------- interrupt claims -------------------------- *)

\* what interrupt() must leave alone: rows, transcript, active table, ports,
\* bridges, subprocesses, pending connects
sessionState ==
    <<sessions, messages, activeSessions, usedPorts, bridge, cli, create, nextId,
      received, now>>

C36_CloseOfCurrentOnly ==
    [][\A w \in 1..Len(sockets.ws) :
          (sockets.ws[w].readyState # "CLOSED" /\ sockets'.ws[w].readyState = "CLOSED")
              => /\ sockets'.clientWs = IF sockets.clientWs = w THEN 0 ELSE sockets.clientWs
                 /\ w # sockets.clientWs
                        => (isConnected(sockets') <=> isConnected(sockets))]_vars

\* connection A began to close, connection B replaced it, and the close
\* event of A has arrived after that: B is attached and open
C36_Witness ==
    /\ called.op = "close"
    /\ called.session = 1
    /\ sockets.ws[1].code = 0
    /\ sockets.clientWs = 2
    /\ sockets.ws[2].readyState = "OPEN"

(* -------------------------- connect wait claims ------------------------ *)

\* one of the three events of the connect wait of session s happens
waitEvent(s) ==
    \/ WaitConnection(s)
    \/ \E stderr \in Stderrs : WaitTimer(s, stderr) \/ WaitExit(s, stderr)

\* C37: the connect wait of a create() call is settled by the first of
\* bridge connect, subprocess exit and timer; resolve() or reject() is
\* called once in all, and the catch block of the wait runs at most once
\* and only for a rejected wait; a wait that resolves leaves the session
\* idle and create() returns; once the wait is settled the timer is not
\* armed, the exit listener is removed, and the outcome never changes.
C37_SettledOnce ==
    /\ [](\A s \in DOMAIN wait :
             /\ wait[s].settles <= 1
             /\ wait[s].failures = (IF wait[s].promise = "rejected" THEN 1 ELSE 0)
             /\ wait[s].promise # "pending"
                    => /\ wait[s].settles = 1
                       /\ wait[s].timeout # "armed"
                       /\ ~wait[s].onExit
                       /\ create[s] = (IF wait[s].promise = "resolved"
                                       THEN "done" ELSE "failed"))
    /\ [][\A s \in DOMAIN wait :
             /\ (wait[s].promise = "pending" /\ waitEvent(s))
                    => wait'[s].promise # "pending"
             /\ (wait[s].promise = "pending" /\ wait'[s].promise = "resolved")
                    => /\ sessions'[s].status = "idle"
                       /\ called' = call("create", s, "return", called'.events, << >>)
             /\ wait[s].promise # "pending"
                    => /\ wait'[s].promise = wait[s].promise
                       /\ ~(called'.op = "create" /\ called'.session = s)]_vars

\* the wait resolved on the connect, and the subprocess has exited after
\* that: the exit did not reach the wait
C37_Witness ==
    \E s \in DOMAIN wait :
        /\ wait[s].promise = "resolved"
        /\ wait[s].timeout = "cleared"
        /\ cli[s] = "exited"
        /\ called.op = "exit"

(* ----------------------------- router claims --------------------------- *)

\* the callback the claim gives to a message type
belongsTo(message) ==
    CASE message.type = "system" /\ message.subtype = "init" -> {"onSystemInit"}
      [] message.type = "control_request" /\ message.subtype = "init" -> {"onSystemInit"}
      [] message.type = "control_request" /\ message.subtype = "can_use_tool" ->
             {"onPermissionRequest"}
      [] message.type = "assistant" -> {"onAssistant"}
      [] message.type = "stream_event" -> {"onStreamEvent"}
      [] message.type = "result" -> {"onResult"}
      [] OTHER -> {}

\* C38: for every inbound message the router emits at most one bus event:
\* session.message for system, assistant, control_request init and the types
\* it does not know, stream.event for stream_event and tool_progress,
\* session.result for result, none for keep_alive and control_request
\* can_use_tool; and it calls the callback that belongs to the message,
\* when that callback is installed, and no other callback.
C38_Dispatch ==
    called.op = "routeMessage" =>
        LET m == called.message
            known == {"system", "assistant", "stream_event", "result",
                      "control_request", "tool_progress", "keep_alive"}
        IN  /\ Len(called.events) <= 1
            /\ (\/ m.type \in {"system", "assistant"}
                \/ m.type = "control_request" /\ m.subtype = "init"
                \/ m.type \notin known) => called.events = <<"session.message">>
            /\ m.type \in {"stream_event", "tool_progress"}
                   => called.events = <<"stream.event">>
            /\ m.type = "result" => called.events = <<"session.result">>
            /\ (\/ m.type = "keep_alive"
                \/ m.type = "control_request" /\ m.subtype = "can_use_tool")
                   => called.events = << >>
            /\ {called.invoked[i] : i \in 1..Len(called.invoked)}
                   = belongsTo(m) \cap called.callbacks
            /\ Len(called.invoked) <= 1

\* a permission request was routed: the permission callback ran and the
\* router emitted nothing
C38_Witness ==
    /\ called.op = "routeMessage"
    /\ called.message = [type |-> "control_request", subtype |-> "can_use_tool"]
    /\ called.invoked = <<"onPermissionRequest">>
    /\ called.events = << >>

(* --------------------------- transcript claims ------------------------- *)

\* what the transcript of a session has to hold after the frames and the
\* sends of log: an inbound entry per assistant and per result frame, an
\* outbound entry per user frame, in the order of the log
RECURSIVE expected(_)
expected(log) ==
    IF log = << >> THEN << >>
    ELSE LET e == log[Len(log)]
             rest == expected(SubSeq(log, 1, Len(log) - 1))
         IN  IF e.type \in {"assistant", "result"}
             THEN Append(rest, [direction |-> "inbound", message_type |-> e.type])
             ELSE IF e.type = "user"
             THEN Append(rest, [direction |-> "outbound", message_type |-> "user"])
             ELSE rest

\* the entries of a transcript as getMessages returns them
entries(rows) ==
    LET got == getMessages(rows)
    IN  [i \in 1..Len(got) |-> [direction |-> got[i].direction,
                                message_type |-> got[i].message_type]]

\* C39: after any sequence of frames and sendMessage calls the transcript of
\* a session holds exactly one inbound entry for every assistant frame and
\* every result frame received and exactly one outbound entry for every user
\* frame sent, in the order they occurred, and no entry for a frame of
\* another type
C39_TranscriptComplete ==
    \A s \in DOMAIN transcript : entries(transcript[s]) = expected(arrived[s])

\* a user frame was sent, then a stream event and a result frame arrived: the
\* transcript holds the user entry and, of a later time, the result entry
C39_Witness ==
    \E s \in DOMAIN transcript :
        /\ [i \in 1..Len(arrived[s]) |-> arrived[s][i].type]
               = <<"user", "stream_event", "result">>
        /\ Len(transcript[s]) = 2
        /\ transcript[s][1].timestamp < transcript[s][2].timestamp

(* ------------------------- process backing claims --------------------- *)

\* C40: once the create() call of a session has returned or failed, the
\* session, while its persisted status is starting, idle or active, has an
\* entry in the active-session table, a subprocess that has not exited and
\* a listening bridge
C40_ProcessBehind ==
    \A s \in nonTerminal :
        create[s] \in {"done", "failed"} =>
            /\ s \in DOMAIN activeSessions
            /\ cli[s] \in {"running", "signalled"}
            /\ bridge[s].listening

====
